---------------------------- MODULE Spec2Model ----------------------------
(***************************************************************************)
(* A model of the denden publish/subscribe Hub (src/src/core.ts), of the   *)
(* route matcher it uses (src/src/tools.ts), of the queue that feeds it    *)
(* (src/src/queue.ts) and of the helpers once, until and first             *)
(* (src/extensions/helpers.ts).                                            *)
(*                                                                         *)
(* JavaScript runs one call stack to completion, so the model keeps the    *)
(* call stack of the Hub explicitly: pub, the array push that dispatches a *)
(* Message, the backlog loop of sub, and a subscriber callback each are a  *)
(* frame, and a step continues the frame on top.  Operations issued by the *)
(* embedding program start when the stack is empty; a callback may issue   *)
(* pub or call its unsub function while it runs.                           *)
(*                                                                         *)
(* Strings are sequences of one-character strings, so 'a*' is <<"a","*">>. *)
(***************************************************************************)
EXTENDS Integers, Sequences, FiniteSets, TLC

VARIABLES
    channels,   \* Hub.channels: Map<string, Channel>, in insertion order
    subs,       \* the listeners registered by sub, in registration order
    running,    \* Hub.running: the WeakMap from a `contains` token to results
    calls,      \* one record per pub call: its promise and what it awaits
    promises,   \* the promises returned by asynchronous callbacks
    order,      \* Message.#order, the static sequence counter
    stack,      \* the JavaScript call stack, top first
    errors,     \* the ErrorEvents dispatched on the Hub, in order
    invoked,    \* every callback invocation so far (a mock's call log)
    last,       \* what the last step did
    queue,      \* the array given to makeQueue, and the Proxy made of it
    console,    \* the messages written by console.error
    called      \* the calls of the functions given to the queue and the helpers,
                \* and the calls callbacks make of the unsub of another subscription

vars == <<channels, subs, running, calls, promises, order, stack, errors,
          invoked, last, queue, console, called>>

-----------------------------------------------------------------------------
(* Bounds of the model: how many pub calls and sub calls a behaviour of   *)
(* each specification makes.                                              *)

MaxPubs == 3
MaxSubs == 1

MultiPubs == 1
MultiSubs == 2

UnsubPubs == 2
UnsubSubs == 2

AsyncPubs == 1
AsyncSubs == 2

ErrorPubs == 1
ErrorSubs == 3

ChanPubs == 2
ChanSubs == 1

QueryPubs == 3

SamePubs == 2
SameSubs == 2

EventPubs == 1
EventSubs == 2

(* The longest array given to makeQueue, and the number of assignments    *)
(* made through the Proxy.                                                *)
MaxInitial == 2
MaxAssigned == 1

HelperPubs == 3
HelperSubs == 1

FirstPubs == 3

InsidePubs == 1
InsideSubs == 3

LivePubs == 1
LiveSubs == 2

(* The longest route string, the longest channel name and the longest     *)
(* list of routes that match is applied to.                               *)
MaxLen == 3
NameLen == 3
MaxList == 2

(* The longest string that getAffix is applied to on its own. *)
AffixLen == 4

-----------------------------------------------------------------------------
(* Strings. *)

A == <<"a">>
B == <<"b">>
Star == <<"*">>
Undefined == <<"u", "n", "d", "e", "f", "i", "n", "e", "d">>

Min(x, y) == IF x < y THEN x ELSE y

includes(str, ch) == \E i \in 1..Len(str) : str[i] = ch

startsWith(str, prefix) ==
    /\ Len(prefix) <= Len(str)
    /\ SubSeq(str, 1, Len(prefix)) = prefix

endsWith(str, suffix) ==
    /\ Len(suffix) <= Len(str)
    /\ SubSeq(str, Len(str) - Len(suffix) + 1, Len(str)) = suffix

(* A reversal that leaves the string as it is. *)
sameString(str) == str

reverseString(str) == [i \in 1..Len(str) |-> str[Len(str) + 1 - i]]

(* The sequences of at most n elements of a set. *)
Strings(alphabet, n) == UNION {[1..k -> alphabet] : k \in 0..n}

(* The result of getAffix: `ok` is FALSE where the code returns false. *)
NoAffix == [ok |-> FALSE, term |-> <<>>, isSuffix |-> FALSE]

getAffix(str) ==
    IF ~includes(str, "*") \/ str = Star
    THEN NoAffix
    ELSE LET reverse == startsWith(str, Star)
             s == IF reverse THEN reverseString(str) ELSE str
         IN  IF ~endsWith(s, Star) \/ (endsWith(s, Star) /\ startsWith(s, Star))
             THEN NoAffix
             ELSE LET partial == SubSeq(s, 1, Len(s) - 1)
                  IN  [ok |-> TRUE,
                       term |-> IF reverse THEN reverseString(partial) ELSE partial,
                       isSuffix |-> reverse]

(* A route (MatchNeedle) is tagged with its JavaScript type. *)
Str(s) == [tag |-> "string", val |-> s]
Arr(l) == [tag |-> "array", val |-> l]

isStar(needle) == needle.tag = "string" /\ needle.val = Star

(* match on a string needle.  Where getAffix returned false the code reads  *)
(* .isSuffix and .term of false: both are undefined, so it evaluates        *)
(* haystack.startsWith(undefined), which tests the prefix 'undefined'.      *)
matchString(str, haystack) ==
    IF str = Star THEN TRUE
    ELSE IF ~includes(str, "*") THEN str = haystack
    ELSE LET partial == getAffix(str)
         IN  IF ~partial.ok THEN startsWith(haystack, Undefined)
             ELSE IF partial.isSuffix THEN endsWith(haystack, partial.term)
             ELSE startsWith(haystack, partial.term)

(* A regular expression route stands for /^val/: RegExp.prototype.test    *)
(* finds the prefix `val` at the start of the name.                       *)
Regex(s) == [tag |-> "regexp", val |-> s]

test(re, haystack) == startsWith(haystack, re)

(* match on a needle that is not an array (lines 54-70). *)
matchOne(needle, haystack) ==
    IF needle.tag = "regexp" THEN test(needle.val, haystack)
    ELSE matchString(needle.val, haystack)

match(needle, haystack) ==
    IF needle.tag = "array"
    THEN \E i \in 1..Len(needle.val) : matchOne(needle.val[i], haystack)
    ELSE matchOne(needle, haystack)


-----------------------------------------------------------------------------
(* Messages, channels and queries. *)

(* Message.NAME, the event type of every Message. *)
NAME == "ddm::event::message"

Message(channel, token, payload, ord) ==
    [type |-> NAME, class |-> "Message",
     channel |-> channel, token |-> token, payload |-> payload, order |-> ord]

(* new Event(type): an event that is not a Message.  It has none of the   *)
(* properties of a Message, so each reads as undefined; a string method   *)
(* or a regular expression that is given undefined works on 'undefined'.  *)
PlainEvent(type) ==
    [type |-> type, class |-> "Event",
     channel |-> Undefined, token |-> 0, payload |-> "", order |-> -1]

NoMsg == Message(<<>>, 0, "", -1)

(* A value a callback produced: its kind and what tells it from others. *)
Result(t, v) == [t |-> t, v |-> v]

(* One entry of the call log of the callbacks: the subscription, the      *)
(* Message, whether dispatchEvent or the backlog loop made the call, and  *)
(* the result recorded for it once it has ended.                          *)
Invocation(sub, msg, live) ==
    [sub |-> sub, msg |-> msg, live |-> live, res |-> Result("running", 0)]

keys == [i \in 1..Len(channels) |-> channels[i].name]

has(seq, x) == \E i \in 1..Len(seq) : seq[i] = x

(* An insertion that does not look for the element. *)
addAgain(seq, x) == Append(seq, x)

add(seq, x) == IF has(seq, x) THEN seq ELSE Append(seq, x)

(* Set.prototype.union on insertion-ordered sets. *)
RECURSIVE union(_, _)
union(s, t) == IF t = <<>> THEN s ELSE union(add(s, Head(t)), Tail(t))

log(name) ==
    LET i == CHOOSE j \in 1..Len(channels) : channels[j].name = name
    IN  channels[i].msgs

getChannels(query) ==
    IF isStar(query) THEN keys
    ELSE LET q == IF query.tag = "array" THEN query ELSE Arr(<<query>>)
         IN  SelectSeq(keys, LAMBDA c : match(q, c))

(* A comparison that takes the two orders for one another. *)
compareSwapped(a, b, ord) == IF ord = "ASC" THEN b.order - a.order ELSE a.order - b.order

compare(a, b, ord) == IF ord = "ASC" THEN a.order - b.order ELSE b.order - a.order

(* Every Message has a numeric order, so the filter of sortByProp keeps   *)
(* all of them; the sort is the stable sort of Array.prototype.sort.      *)
RECURSIVE sortByProp(_, _)
sortByProp(arr, ord) ==
    IF arr = <<>> THEN <<>>
    ELSE LET x == Head(arr)
             rest == sortByProp(Tail(arr), ord)
         IN  SelectSeq(rest, LAMBDA y : compare(y, x, ord) < 0)
             \o <<x>>
             \o SelectSeq(rest, LAMBDA y : compare(y, x, ord) >= 0)

slice(arr, limit) == SubSeq(arr, 1, Min(limit, Len(arr)))

RECURSIVE routeChannels(_, _)
routeChannels(collection, routes) ==
    IF routes = <<>> THEN collection
    ELSE routeChannels(union(collection, getChannels(Head(routes))), Tail(routes))

RECURSIVE collect(_, _, _)
collect(collection, names, ord) ==
    IF names = <<>> THEN collection
    ELSE collect(sortByProp(collection \o log(Head(names)), ord), Tail(names), ord)

getMessages(cid, ord, limit) ==
    IF limit = 0 THEN <<>>
    ELSE LET routes == IF cid.tag = "array" THEN cid.val ELSE <<cid>>
         IN  slice(collect(<<>>, routeChannels(<<>>, routes), ord), limit)

(* The default of `limit` in the destructuring of the query (line 173). *)
DefaultLimit == 1

(* getMessages(query) from its entry: a query is a record that has the    *)
(* fields the caller wrote, and the destructuring (lines 171-179) gives   *)
(* the others their defaults.                                             *)
getMessagesWith(query) ==
    IF "cid" \notin DOMAIN query THEN <<>>
    ELSE getMessages(query.cid,
                     IF "order" \in DOMAIN query THEN query.order ELSE "DESC",
                     IF "limit" \in DOMAIN query THEN query.limit ELSE DefaultLimit)

-----------------------------------------------------------------------------
(* The call stack. *)

Frame(op, call, sub, msg, len, rest, stage, inv) ==
    [op |-> op, call |-> call, sub |-> sub, msg |-> msg, len |-> len,
     rest |-> rest, stage |-> stage, inv |-> inv]

top == Head(stack)

idle == stack = <<>>

running_get(token) == IF token \in DOMAIN running THEN running[token] ELSE <<>>

Event(ev, id) == [ev |-> ev, id |-> id]

(* No queue has been made: `made` says that makeQueue returned its Proxy, *)
(* `arr` is the array, `initial` the array as it was given, and           *)
(* `assigned` lists the assignments made through the Proxy, in order.     *)
NoQueue == [made |-> FALSE, arr |-> <<>>, initial |-> <<>>, assigned |-> <<>>]

Init ==
    /\ channels = <<>>
    /\ subs = <<>>
    /\ running = <<>>
    /\ calls = <<>>
    /\ promises = <<>>
    /\ order = 0
    /\ stack = <<>>
    /\ errors = <<>>
    /\ invoked = <<>>
    /\ last = Event("init", 0)
    /\ queue = NoQueue
    /\ console = <<>>
    /\ called = <<>>


-----------------------------------------------------------------------------
(* Hub.pub. *)

(* A test that takes every string route for fully qualified. *)
isString(route) == route.tag = "string"

isLiteral(route) == route.tag = "string" /\ ~includes(route.val, "*")

(* A resolution that collects the targets in an array, not in a Set: a    *)
(* fully qualified route is added whether or not it is there already.     *)
RECURSIVE qualifyAgain(_, _, _)
qualifyAgain(chans, fq, routes) ==
    IF routes = <<>> THEN [channels |-> chans, targets |-> fq]
    ELSE LET route == Head(routes)
         IN  IF isLiteral(route)
             THEN qualifyAgain(IF \E i \in 1..Len(chans) : chans[i].name = route.val
                               THEN chans
                               ELSE Append(chans, [name |-> route.val, msgs |-> <<>>]),
                               Append(fq, route.val), Tail(routes))
             ELSE qualifyAgain(chans, fq, Tail(routes))

(* Lines 116-128 of pub: the routes are normalised to an array, resolved  *)
(* against the existing channels, and each fully qualified route without  *)
(* a channel gets one.  The result is the new Map and the target set.     *)
RECURSIVE qualify(_, _, _)
qualify(chans, fq, routes) ==
    IF routes = <<>> THEN [channels |-> chans, targets |-> fq]
    ELSE LET route == Head(routes)
         IN  IF isLiteral(route) /\ ~has(fq, route.val)
             THEN qualify(Append(chans, [name |-> route.val, msgs |-> <<>>]),
                          Append(fq, route.val), Tail(routes))
             ELSE qualify(chans, fq, Tail(routes))

(* pub up to the creation of the `contains` token: `base` is the stack    *)
(* the call is made from.                                                 *)
pubEnter(routes, payload, base) ==
    LET arr == IF routes.tag = "array" THEN routes ELSE Arr(<<routes>>)
        q == qualify(channels, getChannels(arr), arr.val)
        token == Len(calls) + 1
    IN  /\ channels' = q.channels
        /\ calls' = Append(calls, [routes |-> routes, payload |-> payload,
                                   targets |-> q.targets,
                                   state |-> "executing", awaited |-> <<>>,
                                   value |-> <<>>, cleaned |-> FALSE,
                                   trigger |-> 0])
        /\ stack' = <<Frame("pub", token, 0, NoMsg, 0, q.targets, 0, 0)>> \o base
        /\ last' = Event("pub", token)

(* The embedding program calls hub.pub(routes, payload). *)
Pub(routes, payload) ==
    /\ idle
    /\ pubEnter(routes, payload, <<>>)
    /\ UNCHANGED <<subs, running, promises, order, errors, invoked,
                   queue, console, called>>

(* A token that is the value of the payload, not an object of its own. *)
containsByValue(c) == IF calls[c].payload = "p" THEN 1 ELSE 2

(* Line 128: `contains = {payload}` is a new object for each call of pub, *)
(* so its identity is the call.  It keys the WeakMap `running`, and every *)
(* Message of the call carries it.                                        *)
contains(c) == c

(* The listeners dispatchEvent will visit: a clone of the listener list. *)
listeners == SelectSeq([i \in 1..Len(subs) |-> i], LAMBDA i : ~subs[i].removed)

(* A constructor that reads Message.#order and leaves it as it is. *)
PubPushSameOrder ==
    /\ ~idle
    /\ top.op = "pub"
    /\ top.rest # <<>>
    /\ LET name == Head(top.rest)
           m == Message(name, contains(top.call), calls[top.call].payload, order)
       IN  /\ order' = order
           /\ stack' = <<Frame("dispatch", top.call, 0, m, Len(log(name)), listeners, 0, 0),
                         [top EXCEPT !.rest = Tail(top.rest)]>> \o Tail(stack)
           /\ last' = Event("push", m.order)
    /\ UNCHANGED <<channels, subs, running, calls, promises, errors, invoked,
                   queue, console, called>>

(* forEach of pub, one channel: the Message is created and pushed on the  *)
(* channel.  push reads the length, then assigns the index, which enters  *)
(* the set trap of the Proxy: the trap dispatches before it stores.       *)
PubPush ==
    /\ ~idle
    /\ top.op = "pub"
    /\ top.rest # <<>>
    /\ LET name == Head(top.rest)
           m == Message(name, contains(top.call), calls[top.call].payload, order)
       IN  /\ order' = order + 1
           /\ stack' = <<Frame("dispatch", top.call, 0, m, Len(log(name)), listeners, 0, 0),
                         [top EXCEPT !.rest = Tail(top.rest)]>> \o Tail(stack)
           /\ last' = Event("push", m.order)
    /\ UNCHANGED <<channels, subs, running, calls, promises, errors, invoked,
                   queue, console, called>>

(* A listener that does not test the channel of the Message. *)
willRunAll(frame) == SelectSeq(frame.rest, LAMBDA i : ~subs[i].removed)

(* A test of the type of the event in the place of its class. *)
hasMessageName(evt) == evt.type = NAME

(* msg instanceof Message (line 84). *)
instanceofMessage(evt) == evt.class = "Message"

(* The listeners of the clone that are still registered and whose route   *)
(* matches the channel of the Message (line 84).                          *)
willRun(frame) ==
    SelectSeq(frame.rest,
              LAMBDA i : /\ ~subs[i].removed
                         /\ instanceofMessage(frame.msg)
                         /\ match(subs[i].route, frame.msg.channel))

(* dispatchEvent invokes the next listener that passes the test. *)
Dispatch ==
    /\ ~idle
    /\ top.op = "dispatch"
    /\ willRun(top) # <<>>
    /\ LET s == Head(willRun(top))
           after == SelectSeq(top.rest, LAMBDA i : i > s)
       IN  /\ invoked' = Append(invoked, Invocation(s, top.msg, TRUE))
           /\ stack' = <<Frame("callback", top.call, s, top.msg, 0, <<>>, 0, Len(invoked) + 1),
                         [top EXCEPT !.rest = after]>> \o Tail(stack)
           /\ last' = Event("invoke", s)
    /\ UNCHANGED <<channels, subs, running, calls, promises, order, errors,
                   queue, console, called>>

(* dispatchEvent returns; the trap stores the Message at the index push   *)
(* chose, and push then sets the length to that index plus one.           *)
Store ==
    /\ ~idle
    /\ top.op = "dispatch"
    /\ top.call # 0
    /\ willRun(top) = <<>>
    /\ channels' = [i \in 1..Len(channels) |->
                      IF channels[i].name = top.msg.channel
                      THEN [channels[i] EXCEPT
                              !.msgs = SubSeq(channels[i].msgs, 1, top.len) \o <<top.msg>>]
                      ELSE channels[i]]
    /\ stack' = Tail(stack)
    /\ last' = Event("store", top.msg.order)
    /\ UNCHANGED <<subs, running, calls, promises, order, errors, invoked,
                   queue, console, called>>

(* The embedding program calls hub.dispatchEvent(new Event(type)): the    *)
(* listeners of sub are registered for Message.NAME, so an event of that  *)
(* type visits them, and an event of another type visits none.  The call  *)
(* is of no pub, which the call 0 of the frame stands for.                *)
DispatchEvent(type) ==
    /\ idle
    /\ stack' = <<Frame("dispatch", 0, 0, PlainEvent(type), 0,
                        IF type = NAME THEN listeners ELSE <<>>, 0, 0)>>
    /\ last' = Event("dispatchEvent", 0)
    /\ UNCHANGED <<channels, subs, running, calls, promises, order, errors, invoked,
                   queue, console, called>>

(* That dispatchEvent returns to the embedding program. *)
DispatchEventReturn ==
    /\ ~idle
    /\ top.op = "dispatch"
    /\ top.call = 0
    /\ willRun(top) = <<>>
    /\ stack' = Tail(stack)
    /\ last' = Event("dispatched", 0)
    /\ UNCHANGED <<channels, subs, running, calls, promises, order, errors, invoked,
                   queue, console, called>>

(* An executor that leaves the promise pending when nothing was recorded. *)
PubReturnWaits ==
    /\ ~idle
    /\ top.op = "pub"
    /\ top.rest = <<>>
    /\ calls' = [calls EXCEPT ![top.call] =
                   [@ EXCEPT !.state = "pending",
                             !.awaited = running_get(contains(top.call))]]
    /\ stack' = Tail(stack)
    /\ last' = Event("pubReturn", top.call)
    /\ UNCHANGED <<channels, subs, running, promises, order, errors, invoked,
                   queue, console, called>>

(* Lines 135-154: the executor of pub ends.  With nothing recorded the    *)
(* promise is fulfilled with []; otherwise it waits on allSettled of the  *)
(* results recorded so far.                                               *)
PubReturn ==
    /\ ~idle
    /\ top.op = "pub"
    /\ top.rest = <<>>
    /\ LET recorded == running_get(contains(top.call))
       IN  calls' = [calls EXCEPT ![top.call] =
                       IF recorded = <<>>
                       THEN [@ EXCEPT !.state = "fulfilled"]
                       ELSE [@ EXCEPT !.state = "pending", !.awaited = recorded]]
    /\ stack' = Tail(stack)
    /\ last' = Event("pubReturn", top.call)
    /\ UNCHANGED <<channels, subs, running, promises, order, errors, invoked,
                   queue, console, called>>


-----------------------------------------------------------------------------
(* Hub.sub and the unsub function it returns. *)

(* A listener list that a dispatchEvent in progress reads as it is, not   *)
(* as a clone: a listener added meanwhile is visited in the same pass.    *)
registerLive(base, s) ==
    [i \in 1..Len(base) |->
        IF base[i].op = "dispatch" THEN [base[i] EXCEPT !.rest = Append(@, s)]
        ELSE base[i]]

(* addEventListener (line 88) while the calls of `base` are in progress:  *)
(* a dispatchEvent among them works on its clone of the listener list,    *)
(* which the new listener is not part of.                                 *)
register(base, s) == base

(* sub up to the backlog loop (lines 82-89): the listener is registered   *)
(* and the backlog is read; `base` is the stack the call is made from.    *)
subEnter(route, kind, backlog, ownSignal, base) ==
    /\ subs' = Append(subs, [route |-> route, kind |-> kind, backlog |-> backlog,
                             ownSignal |-> ownSignal, aborted |-> FALSE,
                             removed |-> FALSE, since |-> order])
    /\ LET msgs == getMessages(route, "DESC", backlog)
       IN  stack' = <<Frame("sub", 0, Len(subs) + 1, NoMsg, 0, msgs, 0, 0)>>
                    \o register(base, Len(subs) + 1)
    /\ last' = Event("sub", Len(subs) + 1)

(* The embedding program calls hub.sub(route, callback, backlog, options). *)
(* `kind` says what the callback does; `ownSignal` says that the options   *)
(* carry a signal of the caller, which then replaces controller.signal in  *)
(* the options given to addEventListener (line 88).                        *)
Sub(route, kind, backlog, ownSignal) ==
    /\ idle
    /\ subEnter(route, kind, backlog, ownSignal, <<>>)
    /\ UNCHANGED <<channels, running, calls, promises, order, errors, invoked,
                   queue, console, called>>

(* A backlog loop that does not look at the signal. *)
neverAborted(s) == FALSE

(* controller.signal.aborted, which the backlog loop tests (line 90). *)
aborted(s) == subs[s].aborted

(* The backlog loop (lines 89-94) hands the next Message to the listener. *)
Replay ==
    /\ ~idle
    /\ top.op = "sub"
    /\ top.rest # <<>>
    /\ ~aborted(top.sub)
    /\ LET m == Head(top.rest)
           next == [top EXCEPT !.rest = Tail(top.rest)]
       IN  IF match(subs[top.sub].route, m.channel)
           THEN /\ invoked' = Append(invoked, Invocation(top.sub, m, FALSE))
                /\ stack' = <<Frame("callback", m.token, top.sub, m, 0, <<>>, 0,
                                    Len(invoked) + 1), next>> \o Tail(stack)
           ELSE /\ invoked' = invoked
                /\ stack' = <<next>> \o Tail(stack)
    /\ last' = Event("replay", top.sub)
    /\ UNCHANGED <<channels, subs, running, calls, promises, order, errors,
                   queue, console, called>>

(* The loop ends, by exhaustion or by the break, and sub returns. *)
SubReturn ==
    /\ ~idle
    /\ top.op = "sub"
    /\ top.rest = <<>> \/ aborted(top.sub)
    /\ stack' = Tail(stack)
    /\ last' = Event("subReturn", top.sub)
    /\ UNCHANGED <<channels, subs, running, calls, promises, order, errors, invoked,
                   queue, console, called>>

(* controller.abort(): the signal is aborted, and a listener registered   *)
(* with that signal is removed.                                           *)
abort(s) ==
    [subs EXCEPT ![s] = [@ EXCEPT !.aborted = TRUE,
                                  !.removed = @ \/ ~subs[s].ownSignal]]

(* The embedding program calls the function sub returned. *)
Unsub(s) ==
    /\ idle
    /\ s \in 1..Len(subs)
    /\ subs' = abort(s)
    /\ last' = Event(IF subs[s].aborted THEN "unsubAgain" ELSE "unsub", s)
    /\ UNCHANGED <<channels, running, calls, promises, order, stack, errors, invoked,
                   queue, console, called>>

-----------------------------------------------------------------------------
(* Hub.makeChannel, and Hub.getMessages called by the embedding program. *)

(* A channel() that does not test the name for wildcards. *)
channelUnchecked(chans, name) ==
    IF \E i \in 1..Len(chans) : chans[i].name = name
    THEN [threw |-> FALSE, channels |-> chans]
    ELSE [threw |-> FALSE, channels |-> Append(chans, [name |-> name, msgs |-> <<>>])]

(* A channel() that does not look for an existing channel: the Map entry  *)
(* of the name is set to a new, empty channel.                            *)
channelAnew(chans, name) ==
    IF includes(name, "*") THEN [threw |-> TRUE, channels |-> chans]
    ELSE IF \E i \in 1..Len(chans) : chans[i].name = name
    THEN [threw |-> FALSE,
          channels |-> [i \in 1..Len(chans) |->
                         IF chans[i].name = name THEN [name |-> name, msgs |-> <<>>]
                         ELSE chans[i]]]
    ELSE [threw |-> FALSE, channels |-> Append(chans, [name |-> name, msgs |-> <<>>])]

(* Hub.channel(name) on the Map `chans`: it throws for a name with a      *)
(* wildcard, returns the existing channel, or creates an empty one.       *)
channel(chans, name) ==
    IF includes(name, "*") THEN [threw |-> TRUE, channels |-> chans]
    ELSE IF \E i \in 1..Len(chans) : chans[i].name = name
    THEN [threw |-> FALSE, channels |-> chans]
    ELSE [threw |-> FALSE, channels |-> Append(chans, [name |-> name, msgs |-> <<>>])]

(* The names the embedding program asks makeChannel for. *)
Names == <<A, B, <<"a", "*">>, Star>>

(* The embedding program calls hub.makeChannel(Names[n]): it returns the  *)
(* name, or throws the TypeError of channel().                            *)
MakeChannel(n) ==
    /\ idle
    /\ LET made == channel(channels, Names[n])
       IN  /\ channels' = made.channels
           /\ last' = Event(IF made.threw THEN "makeChannelThrew" ELSE "makeChannel", n)
    /\ UNCHANGED <<subs, running, calls, promises, order, stack, errors, invoked,
                   queue, console, called>>

(* The embedding program calls hub.getMessages(query). *)
Query(query) ==
    /\ idle
    /\ last' = Event("query", Len(getMessagesWith(query)))
    /\ UNCHANGED <<channels, subs, running, calls, promises, order, stack, errors,
                   invoked,
                   queue, console, called>>

-----------------------------------------------------------------------------
(* Hub.handleCallback: the callback runs, and its result is recorded. *)

(* Results recorded at the front of the list. *)
addToRunningFirst(msg, status) ==
    (msg.token :> <<status>> \o running_get(msg.token)) @@ running

addToRunning(msg, status) ==
    (msg.token :> Append(running_get(msg.token), status)) @@ running

inCallback(kinds) ==
    /\ ~idle
    /\ top.op = "callback"
    /\ subs[top.sub].kind \in kinds

(* Lines 298-301: the result is recorded, and handleCallback returns. *)
record(result) ==
    /\ running' = addToRunning(top.msg, result)
    /\ invoked' = [invoked EXCEPT ![top.inv].res = result]
    /\ stack' = Tail(stack)

(* The callback returns a value of its own. *)
CallbackReturns ==
    /\ inCallback({"value"})
    /\ record(Result("value", top.sub))
    /\ last' = Event("return", top.sub)
    /\ UNCHANGED <<channels, subs, calls, promises, order, errors,
                   queue, console, called>>

(* The values a callback of kind 'undefined', 'false', 'null' or 'zero'   *)
(* returns.                                                               *)
Plain == {"undefined", "false", "null", "zero"}

(* A status that replaces every falsy result by true. *)
statusOrTrue(result) == IF result.t \in Plain THEN Result("true", 0) ELSE result

(* Line 300: 'undefined' === typeof result ? true : result. *)
status(result) == IF result.t = "undefined" THEN Result("true", 0) ELSE result

(* The callback returns undefined, false, null or 0. *)
CallbackReturnsPlain ==
    /\ inCallback(Plain)
    /\ record(status(Result(subs[top.sub].kind, 0)))
    /\ last' = Event("return", top.sub)
    /\ UNCHANGED <<channels, subs, calls, promises, order, errors,
                   queue, console, called>>

(* new ErrorEvent(error): `cause` lists the errors from event.cause down  *)
(* the chain of causes, which ends in the value that the callback of      *)
(* subscription `thrown` threw in invocation `inv`.                       *)
ErrorEvent(cause, thrown, inv) == [cause |-> cause, thrown |-> thrown, inv |-> inv]

(* A handleCallback without the try: the exception leaves it, and no     *)
(* result is recorded.                                                   *)
CallbackThrowsEscapes ==
    /\ inCallback({"throw"})
    /\ invoked' = [invoked EXCEPT ![top.inv].res = Result("thrown", top.sub)]
    /\ stack' = Tail(stack)
    /\ last' = Event("throw", top.sub)
    /\ UNCHANGED <<channels, subs, running, calls, promises, order, errors,
                   queue, console, called>>

(* A catch that records the CallbackError and dispatches no ErrorEvent. *)
CallbackThrowsSilently ==
    /\ inCallback({"throw"})
    /\ record(Result("CallbackError", top.sub))
    /\ last' = Event("throw", top.sub)
    /\ UNCHANGED <<channels, subs, calls, promises, order, errors,
                   queue, console, called>>

(* The callback throws an Error: it is wrapped in a CallbackError, which  *)
(* an ErrorEvent carries and which is recorded as the result.             *)
CallbackThrows ==
    /\ inCallback({"throw"})
    /\ record(Result("CallbackError", top.sub))
    /\ errors' = Append(errors, ErrorEvent(<<"CallbackError">>, top.sub, top.inv))
    /\ last' = Event("throw", top.sub)
    /\ UNCHANGED <<channels, subs, calls, promises, order,
                   queue, console, called>>

(* A catch that reports a thrown value that is no Error the way it       *)
(* reports an Error.                                                      *)
CallbackThrowsValuePlain ==
    /\ inCallback({"throwValue"})
    /\ record(Result("CallbackError", top.sub))
    /\ errors' = Append(errors, ErrorEvent(<<"CallbackError">>, top.sub, top.inv))
    /\ last' = Event("throw", top.sub)
    /\ UNCHANGED <<channels, subs, calls, promises, order,
                   queue, console, called>>

(* The callback throws a value that is not an Error: the CallbackError   *)
(* that wraps it is recorded, and the ErrorEvent carries a new Error      *)
(* whose cause is that CallbackError (lines 293-296).                     *)
CallbackThrowsValue ==
    /\ inCallback({"throwValue"})
    /\ record(Result("CallbackError", top.sub))
    /\ errors' = Append(errors, ErrorEvent(<<"Error", "CallbackError">>, top.sub, top.inv))
    /\ last' = Event("throw", top.sub)
    /\ UNCHANGED <<channels, subs, calls, promises, order,
                   queue, console, called>>

(* The callback returns a promise that is still pending. *)
CallbackAwaits ==
    /\ inCallback({"async"})
    /\ promises' = Append(promises, [state |-> "pending"])
    /\ record(Result("promise", Len(promises) + 1))
    /\ last' = Event("await", top.sub)
    /\ UNCHANGED <<channels, subs, calls, order, errors,
                   queue, console, called>>

(* The callback calls the unsub function it was given, and returns        *)
(* undefined, which is recorded as true.                                  *)
CallbackUnsubs ==
    /\ inCallback({"unsub"})
    /\ subs' = abort(top.sub)
    /\ record(Result("true", 0))
    /\ last' = Event("unsubInside", top.sub)
    /\ UNCHANGED <<channels, calls, promises, order, errors,
                   queue, console, called>>

(* The callback publishes to the channel of the Message it was given. *)
CallbackPublishes(payload) ==
    /\ inCallback({"pub"})
    /\ top.stage = 0
    /\ pubEnter(Str(top.msg.channel), payload,
                <<[top EXCEPT !.stage = 1]>> \o Tail(stack))
    /\ UNCHANGED <<subs, running, promises, order, errors, invoked,
                   queue, console, called>>

(* The publishing callback returns undefined: after its pub returned, or  *)
(* without publishing when it decides not to.                             *)
CallbackPublished ==
    /\ inCallback({"pub"})
    /\ record(Result("true", 0))
    /\ last' = Event("return", top.sub)
    /\ UNCHANGED <<channels, subs, calls, promises, order, errors,
                   queue, console, called>>

(* The callback subscribes a callback that returns a value of its own. *)
CallbackSubscribes(route, backlog) ==
    /\ inCallback({"sub"})
    /\ top.stage = 0
    /\ subEnter(route, "value", backlog, FALSE,
                <<[top EXCEPT !.stage = 1]>> \o Tail(stack))
    /\ UNCHANGED <<channels, running, calls, promises, order, errors, invoked,
                   queue, console, called>>

(* The callback calls the unsub function of another subscription, and    *)
(* returns undefined.  `called` keeps the call: the subscription, the     *)
(* Message that was being dispatched, and how many invocations had been   *)
(* made by then.                                                          *)
CallbackUnsubsOther(s) ==
    /\ inCallback({"unsubOther"})
    /\ s \in 1..Len(subs)
    /\ s # top.sub
    /\ subs' = abort(s)
    /\ record(Result("true", 0))
    /\ called' = Append(called, [fn |-> "unsub",
                                 arg |-> [sub |-> s, msg |-> top.msg.order,
                                          at |-> Len(invoked)]])
    /\ last' = Event("unsubOther", s)
    /\ UNCHANGED <<channels, calls, promises, order, errors,
                   queue, console>>

(* A callback that subscribes or unsubscribes another returns undefined: *)
(* after its sub returned, or without having done either.                 *)
CallbackReturnsUndefined ==
    /\ inCallback({"sub", "unsubOther"})
    /\ record(Result("true", 0))
    /\ last' = Event("return", top.sub)
    /\ UNCHANGED <<channels, subs, calls, promises, order, errors,
                   queue, console, called>>

-----------------------------------------------------------------------------
(* What happens after pub returned. *)

(* A promise returned by a callback is fulfilled or rejected. *)
Settle(p, outcome) ==
    /\ idle
    /\ p \in 1..Len(promises)
    /\ promises[p].state = "pending"
    /\ promises' = [promises EXCEPT ![p] = [state |-> outcome]]
    /\ last' = Event("settle", p)
    /\ UNCHANGED <<channels, subs, running, calls, order, stack, errors, invoked,
                   queue, console, called>>

(* A wait that only a fulfilment ends: a promise that was rejected counts *)
(* as not settled.                                                        *)
settledFulfilled(result) ==
    result.t = "promise" => promises[result.v].state = "fulfilled"

(* A wait that takes every result for settled. *)
settledAlready(result) == TRUE

settled(result) == result.t = "promise" => promises[result.v].state # "pending"

(* Promise.all in the place of Promise.allSettled: rejected as soon as    *)
(* one of the results is a rejected promise.                              *)
promiseAll(results) ==
    IF \E i \in 1..Len(results) :
          results[i].t = "promise" /\ promises[results[i].v].state = "rejected"
    THEN "rejected"
    ELSE IF \A i \in 1..Len(results) : settled(results[i]) THEN "fulfilled"
    ELSE "pending"

(* Promise.allSettled on the recorded results: pending until every one    *)
(* has settled, then fulfilled; it never rejects.                         *)
allSettled(results) ==
    IF \A i \in 1..Len(results) : settled(results[i]) THEN "fulfilled" ELSE "pending"

(* A map that wraps the reason of a rejected promise in a CallbackError. *)
completedWrapped(result) ==
    IF result.t # "promise" THEN result
    ELSE IF promises[result.v].state = "fulfilled" THEN Result("resolved", result.v)
    ELSE Result("CallbackError", result.v)

(* Lines 142-149: what allSettled reports for a result, mapped. *)
completed(result) ==
    IF result.t # "promise" THEN result
    ELSE IF promises[result.v].state = "fulfilled" THEN Result("resolved", result.v)
    ELSE Result("Error", result.v)

(* A reaction that drops the entry of the call in the step that fulfils   *)
(* the promise, before any handler of the promise has run.                *)
PubSettlesCleans(c) ==
    /\ idle
    /\ c \in 1..Len(calls)
    /\ calls[c].state = "pending"
    /\ allSettled(calls[c].awaited) # "pending"
    /\ calls' = [calls EXCEPT ![c] =
                   [@ EXCEPT !.state = "fulfilled",
                             !.value = [i \in 1..Len(calls[c].awaited) |->
                                         completed(calls[c].awaited[i])],
                             !.cleaned = TRUE]]
    /\ running' = [t \in DOMAIN running \ {contains(c)} |-> running[t]]
    /\ last' = Event("fulfil", c)
    /\ UNCHANGED <<channels, subs, promises, order, stack, errors, invoked,
                   queue, console, called>>

(* Lines 141-151: allSettled is done: the promise of pub is fulfilled    *)
(* with the mapped results (succeeded), or rejected had the chain been    *)
(* rejected (failed).  `trigger` keeps the promise whose settlement this  *)
(* reaction follows at once, the last of the awaited ones to settle.      *)
PubSettles(c) ==
    /\ idle
    /\ c \in 1..Len(calls)
    /\ calls[c].state = "pending"
    /\ allSettled(calls[c].awaited) # "pending"
    /\ calls' = [calls EXCEPT ![c] =
                   IF allSettled(calls[c].awaited) = "fulfilled"
                   THEN [@ EXCEPT !.state = "fulfilled",
                                  !.value = [i \in 1..Len(calls[c].awaited) |->
                                              completed(calls[c].awaited[i])],
                                  !.trigger = IF last.ev = "settle" THEN last.id ELSE 0]
                   ELSE [@ EXCEPT !.state = "rejected"]]
    /\ last' = Event("fulfil", c)
    /\ UNCHANGED <<channels, subs, running, promises, order, stack, errors, invoked,
                   queue, console, called>>

(* Lines 152-154: the finally block drops the entry of the call. *)
PubFinally(c) ==
    /\ idle
    /\ c \in 1..Len(calls)
    /\ calls[c].state \in {"fulfilled", "rejected"}
    /\ calls[c].awaited # <<>>
    /\ ~calls[c].cleaned
    /\ running' = [t \in DOMAIN running \ {contains(c)} |-> running[t]]
    /\ calls' = [calls EXCEPT ![c].cleaned = TRUE]
    /\ last' = Event("finally", c)
    /\ UNCHANGED <<channels, subs, promises, order, stack, errors, invoked,
                   queue, console, called>>

-----------------------------------------------------------------------------
(* The helpers once and until (src/extensions/helpers.ts).  Each is a sub *)
(* with a callback of its own around the callback it was given, and with  *)
(* a backlog of 1 unless onlyFuture is set.  `called` lists the calls of  *)
(* the callback that was given: the subscription and the Message.         *)

(* once(hub, channel, callback, onlyFuture). *)
Once(route, onlyFuture) == Sub(route, "once", IF onlyFuture THEN 0 ELSE 1, FALSE)

(* until(hub, channel, callback, test, onlyFuture). *)
Until(route, onlyFuture) == Sub(route, "until", IF onlyFuture THEN 0 ELSE 1, FALSE)

(* The test given to until: true of the payload 'q'. *)
met(msg) == msg.payload = "q"

(* The callback of once calls the callback it was given (line 41). *)
OnceCalls ==
    /\ inCallback({"once"})
    /\ top.stage = 0
    /\ called' = Append(called, [fn |-> top.sub, arg |-> top.msg.order])
    /\ stack' = <<[top EXCEPT !.stage = 1]>> \o Tail(stack)
    /\ last' = Event("cb", top.sub)
    /\ UNCHANGED <<channels, subs, running, calls, promises, order, errors,
                   invoked, queue, console>>

(* The callback that was given publishes to the channel of its Message    *)
(* before it returns.                                                     *)
HelperPublishes(payload) ==
    /\ inCallback({"once", "until"})
    /\ top.stage = 1
    /\ pubEnter(Str(top.msg.channel), payload,
                <<[top EXCEPT !.stage = 2]>> \o Tail(stack))
    /\ UNCHANGED <<subs, running, promises, order, errors, invoked,
                   queue, console, called>>

(* The callback that was given has returned: the callback of once calls   *)
(* unsub, and returns undefined (line 42).                                *)
OnceReturns ==
    /\ inCallback({"once"})
    /\ top.stage \in {1, 2}
    /\ subs' = abort(top.sub)
    /\ record(Result("true", 0))
    /\ last' = Event("return", top.sub)
    /\ UNCHANGED <<channels, calls, promises, order, errors, queue, console, called>>

(* A callback of until that returns on the test without calling unsub. *)
UntilMetStays ==
    /\ inCallback({"until"})
    /\ top.stage = 0
    /\ met(top.msg)
    /\ record(Result("true", 0))
    /\ last' = Event("met", top.sub)
    /\ UNCHANGED <<channels, subs, calls, promises, order, errors, queue, console,
                   called>>

(* The test of until is true of the Message: the callback of until calls  *)
(* unsub and returns (lines 23-26).                                       *)
UntilMet ==
    /\ inCallback({"until"})
    /\ top.stage = 0
    /\ met(top.msg)
    /\ subs' = abort(top.sub)
    /\ record(Result("true", 0))
    /\ last' = Event("met", top.sub)
    /\ UNCHANGED <<channels, calls, promises, order, errors, queue, console, called>>

(* The test is false: the callback that was given is called (line 27). *)
UntilCalls ==
    /\ inCallback({"until"})
    /\ top.stage = 0
    /\ ~met(top.msg)
    /\ called' = Append(called, [fn |-> top.sub, arg |-> top.msg.order])
    /\ stack' = <<[top EXCEPT !.stage = 1]>> \o Tail(stack)
    /\ last' = Event("cb", top.sub)
    /\ UNCHANGED <<channels, subs, running, calls, promises, order, errors,
                   invoked, queue, console>>

(* The callback that was given has returned, and the callback of until    *)
(* returns undefined.                                                     *)
UntilReturns ==
    /\ inCallback({"until"})
    /\ top.stage \in {1, 2}
    /\ record(Result("true", 0))
    /\ last' = Event("return", top.sub)
    /\ UNCHANGED <<channels, subs, calls, promises, order, errors, queue, console,
                   called>>

-----------------------------------------------------------------------------
(* first (src/extensions/helpers.ts, lines 68-129): one promise for each  *)
(* route, resolved by a subscription with a backlog of 1 and rejected by  *)
(* a timer, and the reaction to Promise.allSettled of them, which calls   *)
(* the callback.                                                          *)

(* ERRORS.TIMED_OUT_SINGLE. *)
TimedOutSingle == "TIMED OUT"

(* The promise made for a route: the subscription that resolves it, the   *)
(* Message it was resolved with, and the state of its timer.              *)
RoutePromise(route, s, timer) ==
    [state |-> "pending", kind |-> "route", route |-> route, sub |-> s,
     value |-> NoMsg, timer |-> timer]

(* The promise of Promise.allSettled (line 104). *)
AllSettledPromise ==
    [state |-> "pending", kind |-> "allSettled", route |-> Str(<<>>), sub |-> 0,
     value |-> NoMsg, timer |-> "none"]

routePromises == SelectSeq([i \in 1..Len(promises) |-> i],
                           LAMBDA i : promises[i].kind = "route")

(* The embedding program calls first(hub, routes, callback, waitTime). *)
First(routes, waitTime) ==
    /\ idle
    /\ promises = <<>>
    /\ stack' = <<Frame("first", 0, 0, NoMsg, waitTime, routes, 0, 0)>>
    /\ last' = Event("first", Len(routes))
    /\ UNCHANGED <<channels, subs, running, calls, promises, order, errors,
                   invoked, queue, console, called>>

(* routes.map, one route (lines 105-114): the promise is made, and its    *)
(* executor subscribes to the route with a backlog of 1; the timer is set *)
(* when waitTime is greater than -1.                                      *)
FirstSubscribes ==
    /\ ~idle
    /\ top.op = "first"
    /\ top.rest # <<>>
    /\ LET route == Head(top.rest)
           s == Len(subs) + 1
       IN  /\ subs' = Append(subs, [route |-> route, kind |-> "first", backlog |-> 1,
                                    ownSignal |-> FALSE, aborted |-> FALSE,
                                    removed |-> FALSE, since |-> order])
           /\ promises' = Append(promises,
                                 RoutePromise(route, s,
                                              IF top.len > -1 THEN "set" ELSE "none"))
           /\ stack' = <<Frame("sub", 0, s, NoMsg, 0, getMessages(route, "DESC", 1), 0, 0),
                         [top EXCEPT !.rest = Tail(top.rest)]>> \o Tail(stack)
           /\ last' = Event("sub", s)
    /\ UNCHANGED <<channels, running, calls, order, errors, invoked,
                   queue, console, called>>

(* The promises of the routes are given to Promise.allSettled, and first  *)
(* returns.                                                               *)
FirstReturn ==
    /\ ~idle
    /\ top.op = "first"
    /\ top.rest = <<>>
    /\ promises' = Append(promises, AllSettledPromise)
    /\ stack' = Tail(stack)
    /\ last' = Event("firstReturn", 0)
    /\ UNCHANGED <<channels, subs, running, calls, order, errors,
                   invoked, queue, console, called>>

(* A resolve that takes the value of every call. *)
resolveAgain(promise, msg) == [promise EXCEPT !.state = "fulfilled", !.value = msg]

(* resolve([route, payload]): a promise that is settled stays as it is. *)
resolve(promise, msg) ==
    IF promise.state = "pending"
    THEN [promise EXCEPT !.state = "fulfilled", !.value = msg]
    ELSE promise

(* reject(reason). *)
reject(promise) ==
    IF promise.state = "pending" THEN [promise EXCEPT !.state = "rejected"] ELSE promise

(* The callback of the subscription (lines 106-108) resolves the promise  *)
(* of its route with the payload, and returns undefined.                  *)
FirstResolves ==
    /\ inCallback({"first"})
    /\ LET p == CHOOSE i \in 1..Len(promises) : promises[i].sub = top.sub
       IN  promises' = [promises EXCEPT ![p] = resolve(@, top.msg)]
    /\ record(Result("true", 0))
    /\ last' = Event("resolve", top.sub)
    /\ UNCHANGED <<channels, subs, calls, order, errors, queue, console, called>>

(* The timer of a route runs out (lines 110-113): unsub, then reject. *)
Timeout(p) ==
    /\ idle
    /\ p \in 1..Len(promises)
    /\ promises[p].timer = "set"
    /\ subs' = abort(promises[p].sub)
    /\ promises' = [promises EXCEPT ![p] = [reject(@) EXCEPT !.timer = "ran"]]
    /\ last' = Event("timeout", p)
    /\ UNCHANGED <<channels, running, calls, order, stack, errors, invoked,
                   queue, console, called>>

(* The reaction to allSettled can run: every promise of a route has       *)
(* settled, and the reaction has not run.                                 *)
firstReady ==
    \E a \in 1..Len(promises) :
        /\ promises[a].kind = "allSettled"
        /\ promises[a].state = "pending"
        /\ allSettled([i \in 1..Len(routePromises) |->
                          Result("promise", routePromises[i])]) = "fulfilled"

(* Lines 116-128: the results of the fulfilled promises and the failed    *)
(* routes are collected in the order of the routes, and the callback is   *)
(* called with them.                                                      *)
FirstSettles ==
    /\ idle
    /\ firstReady
    /\ LET a == CHOOSE i \in 1..Len(promises) : promises[i].kind = "allSettled"
           succeeded == SelectSeq(routePromises,
                                  LAMBDA i : promises[i].state = "fulfilled")
           failed == SelectSeq(routePromises,
                               LAMBDA i : promises[i].state = "rejected")
       IN  /\ promises' = [promises EXCEPT ![a].state = "fulfilled"]
           /\ called' = Append(called,
                  [fn |-> "first",
                   arg |-> [results |-> [i \in 1..Len(succeeded) |->
                                           <<promises[succeeded[i]].route,
                                             promises[succeeded[i]].value.payload>>],
                            failed |-> [i \in 1..Len(failed) |->
                                          <<promises[failed[i]].route, TimedOutSingle>>]]])
    /\ last' = Event("firstCallback", 0)
    /\ UNCHANGED <<channels, subs, running, calls, order, stack, errors, invoked,
                   queue, console>>

-----------------------------------------------------------------------------
(* makeQueue (src/src/queue.ts). *)

(* Values a record of the queue is made of, next to Str and Arr. *)
Num(n) == [tag |-> "number", val |-> n]
Fn(id) == [tag |-> "function", val |-> id]

(* What an index of the array holds that was never assigned. *)
Hole == [tag |-> "empty", val |-> 0]

(* A property key: the key of an array index, or a name. *)
Index(i) == [tag |-> "index", val |-> i]
Prop(name) == [tag |-> "name", val |-> name]

isQueuedMessage(rec) ==
    /\ rec.tag = "array"
    /\ Len(rec.val) = 2
    /\ rec.val[1].tag = "string"

isQueuedCommand(rec) == rec.tag = "function"

getRecordType(rec) ==
    IF isQueuedMessage(rec) THEN "MESSAGE"
    ELSE IF isQueuedCommand(rec) THEN "COMMAND"
    ELSE "UNKNOWN"

(* processRecord, called from the stack `base`: a QueuedMessage enters    *)
(* hub.pub, a QueuedCommand is called with the hub, and any other value *)
(* passes both tests without effect.                                      *)
processRecord(rec, base) ==
    IF isQueuedMessage(rec)
    THEN /\ pubEnter(Str(rec.val[1].val), rec.val[2].val, base)
         /\ called' = called
    ELSE IF isQueuedCommand(rec)
    THEN /\ called' = Append(called, [fn |-> rec.val, arg |-> "hub"])
         /\ stack' = base
         /\ last' = Event("command", rec.val)
         /\ UNCHANGED <<channels, calls>>
    ELSE /\ stack' = base
         /\ last' = Event("skip", 0)
         /\ UNCHANGED <<channels, calls, called>>

(* The embedding program calls makeQueue(hub, queuedMessages). *)
MakeQueue(queuedMessages) ==
    /\ idle
    /\ queue = NoQueue
    /\ queue' = [NoQueue EXCEPT !.arr = queuedMessages, !.initial = queuedMessages]
    /\ stack' = <<Frame("makeQueue", 0, 0, NoMsg, 0, queuedMessages, 0, 0)>>
    /\ last' = Event("makeQueue", Len(queuedMessages))
    /\ UNCHANGED <<channels, subs, running, calls, promises, order, errors,
                   invoked, console, called>>

(* The loop of makeQueue (lines 77-79) processes the next record. *)
QueueLoop ==
    /\ ~idle
    /\ top.op = "makeQueue"
    /\ top.rest # <<>>
    /\ processRecord(Head(top.rest),
                     <<[top EXCEPT !.rest = Tail(top.rest)]>> \o Tail(stack))
    /\ UNCHANGED <<subs, running, promises, order, errors, invoked, queue, console>>

(* makeQueue returns the Proxy of the array (line 80). *)
MakeQueueReturn ==
    /\ ~idle
    /\ top.op = "makeQueue"
    /\ top.rest = <<>>
    /\ queue' = [queue EXCEPT !.made = TRUE]
    /\ stack' = Tail(stack)
    /\ last' = Event("queue", 0)
    /\ UNCHANGED <<channels, subs, running, calls, promises, order, errors,
                   invoked, console, called>>

(* A test that takes every key for the key of an index. *)
isAnyKey(key) == TRUE

(* Line 82: the key is a string that parseInt reads as an integer. *)
isIntegerKey(key) == key.tag = "index"

(* The text of line 84. *)
OnlyRecords == "Queues only accept records of type QueuedMessage or QueuedCommand"

(* The embedding program assigns q[key] = value: the set trap (lines      *)
(* 81-88) reports or processes the value of an integer key.               *)
QueueSet(key, value) ==
    /\ idle
    /\ queue.made
    /\ queue' = [queue EXCEPT !.assigned = Append(@, [key |-> key, value |-> value])]
    /\ LET frame == Frame("set", 0, 0, value, key, <<>>, 0, 0)
       IN  IF isIntegerKey(key)
           THEN IF getRecordType(value) = "UNKNOWN"
                THEN /\ console' = Append(console, OnlyRecords)
                     /\ stack' = <<frame>>
                     /\ last' = Event("error", 0)
                     /\ UNCHANGED <<channels, calls, called>>
                ELSE /\ processRecord(value, <<frame>>)
                     /\ console' = console
           ELSE /\ stack' = <<frame>>
                /\ last' = Event("set", 0)
                /\ UNCHANGED <<channels, calls, console, called>>
    /\ UNCHANGED <<subs, running, promises, order, errors, invoked>>

(* Reflect.set on an array: an index beyond the length leaves holes, and  *)
(* a name is a property next to the elements.                             *)
ReflectSet(arr, key, value) ==
    IF key.tag # "index" THEN arr
    ELSE [i \in 1..(IF key.val + 1 > Len(arr) THEN key.val + 1 ELSE Len(arr)) |->
            IF i = key.val + 1 THEN value
            ELSE IF i <= Len(arr) THEN arr[i]
            ELSE Hole]

(* Line 89: the trap stores the value and the assignment ends. *)
QueueStore ==
    /\ ~idle
    /\ top.op = "set"
    /\ queue' = [queue EXCEPT !.arr = ReflectSet(@, top.len, top.msg)]
    /\ stack' = Tail(stack)
    /\ last' = Event("stored", 0)
    /\ UNCHANGED <<channels, subs, running, calls, promises, order, errors,
                   invoked, console, called>>

-----------------------------------------------------------------------------
(* The steps that continue the call on top of the stack. *)

Continue ==
    \/ PubPush
    \/ Dispatch
    \/ Store
    \/ PubReturn
    \/ Replay
    \/ SubReturn

Payloads == {"p", "q"}

(* The reactions of promises that are ready to run: the microtask queue   *)
(* is empty when no pub promise can be fulfilled or cleaned up.           *)
ready(c) ==
    \/ /\ calls[c].state = "pending"
       /\ allSettled(calls[c].awaited) # "pending"
    \/ /\ calls[c].state \in {"fulfilled", "rejected"}
       /\ calls[c].awaited # <<>>
       /\ ~calls[c].cleaned

drained == \A c \in 1..Len(calls) : ~ready(c)

(* A backlog larger than any history of the model stands for Infinity. *)
Infinity == 9

-----------------------------------------------------------------------------
(* Re-entrant use: callbacks that publish or unsubscribe while a Message  *)
(* is dispatched or a backlog is replayed, on one channel.  Each call of  *)
(* the embedding program is a task of its own here, so the microtasks of  *)
(* the calls before it have run when it starts.                           *)

Next ==
    \/ \E p \in Payloads : Len(calls) < MaxPubs /\ drained /\ Pub(Str(A), p)
    \/ \E k \in {"value", "unsub", "pub"}, n \in {0, 1, Infinity} :
          Len(subs) < MaxSubs /\ drained /\ Sub(Str(A), k, n, FALSE)
    \/ Continue
    \/ CallbackReturns
    \/ CallbackUnsubs
    \/ \E p \in Payloads : Len(calls) < MaxPubs /\ CallbackPublishes(p)
    \/ CallbackPublished
    \/ \E c \in 1..MaxPubs : PubSettles(c)
    \/ \E c \in 1..MaxPubs : PubFinally(c)

Spec == Init /\ [][Next]_vars

-----------------------------------------------------------------------------
(* Several channels: literal and wildcard subscriptions, and publishing   *)
(* to one channel or to two at once.  Every subscription asks for a        *)
(* backlog of one Message.                                                 *)

NextMulti ==
    \/ \E r \in {Str(A), Arr(<<Str(A), Str(B)>>)}, p \in Payloads :
          Len(calls) < MultiPubs /\ drained /\ Pub(r, p)
    \/ \E r \in {Str(A), Str(B), Str(Star)} :
          Len(subs) < MultiSubs /\ drained /\ Sub(r, "value", 1, FALSE)
    \/ \E s \in 1..Len(subs) : drained /\ ~subs[s].aborted /\ Unsub(s)
    \/ Continue
    \/ CallbackReturns
    \/ \E c \in 1..MultiPubs : PubSettles(c)
    \/ \E c \in 1..MultiPubs : PubFinally(c)

SpecMulti == Init /\ [][NextMulti]_vars

-----------------------------------------------------------------------------
(* Unsubscribing: by the function sub returned, once or repeatedly, or by  *)
(* the callback itself, also for a subscription whose listener options     *)
(* carry a signal of the caller.                                           *)

NextUnsub ==
    \/ Len(calls) < UnsubPubs /\ drained /\ Pub(Str(A), "p")
    \/ \E k \in {"value", "unsub"}, n \in {0, 1}, o \in BOOLEAN :
          Len(subs) < UnsubSubs /\ drained /\ Sub(Str(A), k, n, o)
    \/ \E s \in 1..Len(subs) : drained /\ Unsub(s)
    \/ Continue
    \/ CallbackReturns
    \/ CallbackUnsubs
    \/ \E c \in 1..UnsubPubs : PubSettles(c)
    \/ \E c \in 1..UnsubPubs : PubFinally(c)

SpecUnsub == Init /\ [][NextUnsub]_vars

-----------------------------------------------------------------------------
(* Asynchronous and failing callbacks: the calls of the embedding program  *)
(* and the reactions of promises interleave freely, and a subscription may *)
(* replay a Message whose publish is still awaited: every subscription     *)
(* asks for a backlog of one Message.                                      *)

NextAsync ==
    \/ Len(calls) < AsyncPubs /\ Pub(Str(A), "p")
    \/ \E k \in {"value", "throw", "async"} :
          Len(subs) < AsyncSubs /\ Sub(Str(A), k, 1, FALSE)
    \/ Continue
    \/ CallbackReturns
    \/ CallbackThrows
    \/ CallbackAwaits
    \/ \E p \in 1..Len(promises), o \in {"fulfilled", "rejected"} : Settle(p, o)
    \/ \E c \in 1..AsyncPubs : PubSettles(c)
    \/ \E c \in 1..AsyncPubs : PubFinally(c)

SpecAsync == Init /\ [][NextAsync]_vars

-----------------------------------------------------------------------------
(* Throwing callbacks among callbacks that return: a callback throws an   *)
(* Error or a value that is no Error.                                     *)

NextError ==
    \/ Len(calls) < ErrorPubs /\ drained /\ Pub(Str(A), "p")
    \/ \E k \in {"value", "throw", "throwValue"}, n \in {0, 1} :
          Len(subs) < ErrorSubs /\ drained /\ Sub(Str(A), k, n, FALSE)
    \/ Continue
    \/ CallbackReturns
    \/ CallbackThrows
    \/ CallbackThrowsValue
    \/ \E c \in 1..ErrorPubs : PubSettles(c)
    \/ \E c \in 1..ErrorPubs : PubFinally(c)

SpecError == Init /\ [][NextError]_vars

-----------------------------------------------------------------------------
(* Publishes of one and the same payload value, one after the other or in *)
(* flight together while a callback's promise is pending.                 *)

NextSame ==
    \/ Len(calls) < SamePubs /\ Pub(Str(A), "p")
    \/ \E k \in {"value", "async"} :
          Len(subs) < SameSubs /\ Sub(Str(A), k, 0, FALSE)
    \/ PubPush
    \/ Dispatch
    \/ Store
    \/ PubReturn
    \/ SubReturn
    \/ CallbackReturns
    \/ CallbackAwaits
    \/ \E p \in 1..Len(promises) : Settle(p, "fulfilled")
    \/ \E c \in 1..SamePubs : PubSettles(c)
    \/ \E c \in 1..SamePubs : PubFinally(c)

SpecSame == Init /\ [][NextSame]_vars

-----------------------------------------------------------------------------
(* Channel management: channels made by makeChannel and by pub, with      *)
(* routes that are literal, wildcard or regular expression, next to sub   *)
(* and getMessages, which make none.                                      *)

Routes == {Str(A), Str(<<"a", "*">>), Regex(B), Arr(<<Str(B), Str(Star), Str(B)>>)}

NextChan ==
    \/ \E r \in Routes : Len(calls) < ChanPubs /\ drained /\ Pub(r, "p")
    \/ \E r \in {Str(Star), Str(B), Regex(A)} :
          Len(subs) < ChanSubs /\ drained /\ Sub(r, "value", Infinity, FALSE)
    \/ \E n \in 1..Len(Names) : drained /\ MakeChannel(n)
    \/ \E cid \in {Str(Star), Str(B)} :
          drained /\ Query([cid |-> cid, limit |-> Infinity])
    \/ Continue
    \/ CallbackReturns
    \/ \E c \in 1..ChanPubs : PubSettles(c)
    \/ \E c \in 1..ChanPubs : PubFinally(c)

SpecChan == Init /\ [][NextChan]_vars

-----------------------------------------------------------------------------
(* Queries: getMessages on the logs that publishes to one channel or to   *)
(* two build, with and without a limit, in either order.                  *)

Queries ==
    {[cid |-> Str(A)], [cid |-> Str(A), limit |-> 2],
     [cid |-> Str(Star), order |-> "ASC", limit |-> Infinity],
     [order |-> "ASC"]}

NextQuery ==
    \/ \E r \in {Str(A), Str(B), Arr(<<Str(A), Str(B)>>)} :
          Len(calls) < QueryPubs /\ Pub(r, "p")
    \/ \E q \in Queries : Query(q)
    \/ PubPush
    \/ Store
    \/ PubReturn

SpecQuery == Init /\ [][NextQuery]_vars

-----------------------------------------------------------------------------
(* Events that are not Messages, dispatched on the Hub by the embedding   *)
(* program between publishes, with callbacks that return undefined,       *)
(* false, null or 0.                                                      *)

NextEvent ==
    \/ \E r \in {Str(A), Str(B)} : Len(calls) < EventPubs /\ drained /\ Pub(r, "p")
    \/ \E r \in {Str(Star), Regex(<<"u">>)}, k \in Plain :
          Len(subs) < EventSubs /\ drained /\ Sub(r, k, 1, FALSE)
    \/ \E type \in {NAME, "test"} : drained /\ DispatchEvent(type)
    \/ DispatchEventReturn
    \/ Continue
    \/ CallbackReturnsPlain
    \/ \E c \in 1..EventPubs : PubSettles(c)
    \/ \E c \in 1..EventPubs : PubFinally(c)

SpecEvent == Init /\ [][NextEvent]_vars

-----------------------------------------------------------------------------
(* The helpers once and until on one channel, with callbacks that may     *)
(* publish to it.                                                         *)

NextHelper ==
    \/ \E p \in Payloads : Len(calls) < HelperPubs /\ drained /\ Pub(Str(A), p)
    \/ \E onlyFuture \in BOOLEAN :
          Len(subs) < HelperSubs /\ drained /\ Once(Str(A), onlyFuture)
    \/ \E onlyFuture \in BOOLEAN :
          Len(subs) < HelperSubs /\ drained /\ Until(Str(A), onlyFuture)
    \/ Continue
    \/ OnceCalls
    \/ OnceReturns
    \/ UntilMet
    \/ UntilCalls
    \/ UntilReturns
    \/ \E p \in Payloads : Len(calls) < HelperPubs /\ HelperPublishes(p)
    \/ \E c \in 1..HelperPubs : PubSettles(c)
    \/ \E c \in 1..HelperPubs : PubFinally(c)

SpecHelper == Init /\ [][NextHelper]_vars

-----------------------------------------------------------------------------
(* first on one route or two, with and without a timeout, on a Hub that   *)
(* may have a history, and publishes to the routes before and after the   *)
(* timers run out.                                                        *)

NextFirst ==
    \/ \E r \in {Str(A), Str(B)}, p \in Payloads :
          Len(calls) < FirstPubs /\ drained /\ ~firstReady /\ Pub(r, p)
    \/ \E routes \in {<<Str(A)>>, <<Str(A), Str(B)>>, <<Str(B), Str(Star)>>},
          waitTime \in {-1, 10} :
          drained /\ First(routes, waitTime)
    \/ FirstSubscribes
    \/ FirstReturn
    \/ FirstResolves
    \/ \E p \in 1..Len(promises) : drained /\ ~firstReady /\ Timeout(p)
    \/ FirstSettles
    \/ Continue
    \/ \E c \in 1..FirstPubs : PubSettles(c)
    \/ \E c \in 1..FirstPubs : PubFinally(c)

SpecFirst == Init /\ [][NextFirst]_vars

-----------------------------------------------------------------------------
(* A queue: makeQueue on arrays of tuples, functions and malformed        *)
(* records, then push, assignments to an index that is taken, and         *)
(* assignments to a named property.                                       *)

Records ==
    {Arr(<<Str(A), Str("p")>>), Fn(1), Str(A), Arr(<<Num(3), Str("p")>>),
     Arr(<<Str(A)>>)}

NextQueue ==
    \/ \E queuedMessages \in Strings(Records, MaxInitial) : MakeQueue(queuedMessages)
    \/ QueueLoop
    \/ MakeQueueReturn
    \/ \E key \in {Index(Len(queue.arr)), Index(0), Prop("note")}, value \in Records :
          Len(queue.assigned) < MaxAssigned /\ QueueSet(key, value)
    \/ QueueStore
    \/ PubPush
    \/ Store
    \/ PubReturn

SpecQueue == Init /\ [][NextQueue]_vars

-----------------------------------------------------------------------------
(* Callbacks that subscribe, with or without a backlog, or unsubscribe    *)
(* another subscription while a publish to one channel or to two is       *)
(* dispatching.  The embedding program makes the subscriptions that do    *)
(* so, some of them with a signal of its own in the listener options; a   *)
(* subscription whose callback returns a value was made by a callback.    *)
(* A callback unsubscribes a subscription that was made after its own and *)
(* is not unsubscribed yet.                                               *)

NextInside ==
    \/ \E r \in {Str(A), Arr(<<Str(A), Str(B)>>)} :
          Len(calls) < InsidePubs /\ drained /\ Pub(r, "p")
    \/ \E k \in {"sub", "unsubOther"}, o \in BOOLEAN :
          /\ Len(subs) < InsideSubs /\ drained
          /\ o => k = "unsubOther"
          /\ Sub(Str(Star), k, 0, o)
    \/ \E n \in {0, 1} :
          Len(subs) < InsideSubs /\ CallbackSubscribes(Str(Star), n)
    \/ \E s \in 1..Len(subs) :
          ~idle /\ s > top.sub /\ ~subs[s].aborted /\ CallbackUnsubsOther(s)
    \/ CallbackReturnsUndefined
    \/ Continue
    \/ CallbackReturns
    \/ \E c \in 1..InsidePubs : PubSettles(c)
    \/ \E c \in 1..InsidePubs : PubFinally(c)

SpecInside == Init /\ [][NextInside]_vars

-----------------------------------------------------------------------------
(* The route matcher on its own: match applied to route strings over 'a', *)
(* 'b' and '*', to lists of routes, and to names without '*', among them  *)
(* names that begin with 'undefined'.                                     *)

Needles ==
    {Str(str) : str \in Strings({"a", "b", "*"}, MaxLen)}
    \cup {Arr(l) : l \in Strings({Str(A), Str(<<"a", "*">>), Str(<<"*", "b">>),
                                   Str(<<"b", "*", "a">>)}, MaxList)}

Haystacks == Strings({"a", "b"}, NameLen) \cup {Undefined, Undefined \o A}

(* The arguments of one call of match, on a Hub as constructed. *)
InitMatch ==
    /\ channels = <<>>
    /\ subs = <<>>
    /\ running = <<>>
    /\ calls = <<>>
    /\ promises = <<>>
    /\ order = 0
    /\ stack = <<>>
    /\ errors = <<>>
    /\ invoked = <<>>
    /\ queue = NoQueue
    /\ console = <<>>
    /\ called = <<>>
    /\ \E needle \in Needles, haystack \in Haystacks :
          last = [ev |-> "args", id |-> 0, needle |-> needle, haystack |-> haystack]

Match ==
    /\ last.ev = "args"
    /\ last' = [ev |-> "match", id |-> 0, needle |-> last.needle,
                haystack |-> last.haystack,
                result |-> match(last.needle, last.haystack)]
    /\ UNCHANGED <<channels, subs, running, calls, promises, order, stack,
                   errors, invoked,
                   queue, console, called>>

NextMatch == Match

SpecMatch == InitMatch /\ [][NextMatch]_vars

-----------------------------------------------------------------------------
(* Progress: publishes to callbacks that return a value or a promise.     *)
(* JavaScript runs the call stack to completion and then the reactions of *)
(* the promises that are ready, so these steps are taken when they can    *)
(* be; nothing makes the embedding program publish, subscribe or settle a *)
(* promise.                                                               *)

NextLive ==
    \/ Len(calls) < LivePubs /\ Pub(Str(A), "p")
    \/ \E k \in {"value", "async"} :
          Len(subs) < LiveSubs /\ Sub(Str(A), k, 0, FALSE)
    \/ PubPush
    \/ Dispatch
    \/ Store
    \/ PubReturn
    \/ SubReturn
    \/ CallbackReturns
    \/ CallbackAwaits
    \/ \E p \in 1..Len(promises), o \in {"fulfilled", "rejected"} : Settle(p, o)
    \/ \E c \in 1..LivePubs : PubSettles(c)
    \/ \E c \in 1..LivePubs : PubFinally(c)

(* The steps of the call stack. *)
Runs ==
    \/ PubPush
    \/ Dispatch
    \/ Store
    \/ PubReturn
    \/ SubReturn
    \/ CallbackReturns
    \/ CallbackAwaits

SpecLive ==
    /\ Init
    /\ [][NextLive]_vars
    /\ WF_vars(Runs)
    /\ \A c \in 1..LivePubs : WF_vars(PubSettles(c)) /\ WF_vars(PubFinally(c))

-----------------------------------------------------------------------------
(* getAffix on its own, applied to strings over 'a', 'b' and '*'. *)

Patterns == Strings({"a", "b", "*"}, AffixLen)

(* The argument of one call of getAffix, on a Hub as constructed. *)
InitAffix ==
    /\ channels = <<>>
    /\ subs = <<>>
    /\ running = <<>>
    /\ calls = <<>>
    /\ promises = <<>>
    /\ order = 0
    /\ stack = <<>>
    /\ errors = <<>>
    /\ invoked = <<>>
    /\ queue = NoQueue
    /\ console = <<>>
    /\ called = <<>>
    /\ \E str \in Patterns : last = [ev |-> "str", id |-> 0, str |-> str]

Affix ==
    /\ last.ev = "str"
    /\ last' = [ev |-> "getAffix", id |-> 0, str |-> last.str,
                result |-> getAffix(last.str)]
    /\ UNCHANGED <<channels, subs, running, calls, promises, order, stack,
                   errors, invoked, queue, console, called>>

NextAffix == Affix

SpecAffix == InitAffix /\ [][NextAffix]_vars

-----------------------------------------------------------------------------
(* Properties. *)

(* The invocations the dispatch passes of publish c made, in order. *)
dispatched(c) == SelectSeq(invoked, LAMBDA v : v.live /\ v.msg.token = c)

(* The invocations the backlog replay of subscription s made, in order. *)
replayed(s) == SelectSeq(invoked, LAMBDA v : ~v.live /\ v.sub = s)

(* Every invocation of the callback of subscription s, in order. *)
delivered(s) == SelectSeq(invoked, LAMBDA v : v.sub = s)

(* The positions of the log of `name` that hold the Message of publish c. *)
logged(name, c) == {j \in 1..Len(log(name)) : log(name)[j].token = c}

(* The Messages that were logged on channels matching the route of s when *)
(* sub was called for s.                                                  *)
history(s) ==
    {m \in UNION {{channels[i].msgs[j] : j \in 1..Len(channels[i].msgs)} :
                    i \in 1..Len(channels)} :
        match(subs[s].route, m.channel) /\ m.order < subs[s].since}

(* C1: after any sequence of publishes, nested ones included, the log of  *)
(* a channel holds exactly one Message for each publish call that         *)
(* resolved to that channel: no Message that was appended is lost.        *)
C1_OneMessagePerPublish ==
    \A c \in 1..Len(calls) :
        calls[c].state # "executing" =>
            \A i \in 1..Len(calls[c].targets) :
                Cardinality(logged(calls[c].targets[i], c)) = 1

(* C2: immediately after pub(r, p) returns for a literal route r,         *)
(* getMessages({cid: r, limit: 1}) is exactly one Message, the one of     *)
(* that call, and its payload is p.                                       *)
C2_PublishThenQuery ==
    \A c \in 1..Len(calls) :
        last = Event("pubReturn", c) /\ isLiteral(calls[c].routes) =>
            LET found == getMessages(calls[c].routes, "DESC", 1)
            IN  /\ Len(found) = 1
                /\ found[1].payload = calls[c].payload
                /\ found[1].token = c
                /\ found[1].channel = calls[c].routes.val

(* A pub has just returned on a channel whose log starts with a Message   *)
(* of another payload.                                                    *)
C2_Witness ==
    /\ last.ev = "pubReturn"
    /\ Len(log(A)) >= 2
    /\ log(A)[1].payload # calls[last.id].payload
    /\ getMessages(Str(A), "DESC", 1)[1].payload = calls[last.id].payload

(* C3: sub(route, cb, n) invokes cb for exactly min(n, H) Messages of the *)
(* history, newest first, and all of them before cb receives a Message    *)
(* published after the call of sub began (unless cb unsubscribed).        *)
C3_BacklogBeforeLive ==
    \A s \in 1..Len(subs) :
        last = Event("subReturn", s) /\ ~subs[s].aborted =>
            LET old == replayed(s)
                all == delivered(s)
            IN  /\ Len(old) = Min(subs[s].backlog, Cardinality(history(s)))
                /\ \A i \in 1..Len(old) :
                      /\ old[i].msg \in history(s)
                      /\ Cardinality({m \in history(s) : m.order > old[i].msg.order}) = i - 1
                /\ \A i, j \in 1..Len(all) :
                      all[i].live /\ ~all[j].live => j < i

(* C4: once the unsub function of a subscription has been called, no      *)
(* later publish invokes its callback.                                    *)
C4_NoDeliveryAfterUnsub ==
    last.ev = "invoke" => ~subs[last.id].aborted

(* C5: the replay tests for cancellation before each delivery: it never   *)
(* delivers to a subscription that was unsubscribed, so a callback that   *)
(* unsubscribes during the replay has received its last backlog Message.  *)
C5_ReplayStopsAtUnsub ==
    /\ last.ev = "replay" => ~subs[last.id].aborted
    /\ \A s \in 1..Len(subs) :
          subs[s].kind = "unsub" => Len(replayed(s)) <= 1

(* A sub has returned for a callback that unsubscribed on the first of    *)
(* the two Messages of its backlog.                                       *)
C5_Witness ==
    /\ last.ev = "subReturn"
    /\ subs[last.id].kind = "unsub"
    /\ subs[last.id].aborted
    /\ Min(subs[last.id].backlog, Cardinality(history(last.id))) >= 2
    /\ Len(replayed(last.id)) = 1
    /\ replayed(last.id)[1].res = Result("true", 0)

(* What subscription s has received from publish c on channel ch. *)
received(s, c, ch) ==
    {i \in 1..Len(invoked) : /\ invoked[i].sub = s
                             /\ invoked[i].msg.token = c
                             /\ invoked[i].msg.channel = ch}

(* C6: pub(['a','b'], p) invokes every live subscriber of a once and      *)
(* every live subscriber of b once, with payload p and a Message whose    *)
(* channel is the channel the delivery came from; nobody else is invoked. *)
C6_EachChannelOnce ==
    \A c \in 1..Len(calls) :
        last = Event("pubReturn", c) /\ calls[c].routes = Arr(<<Str(A), Str(B)>>) =>
            /\ \A s \in 1..Len(subs) : \A ch \in {A, B} :
                  Cardinality(received(s, c, ch)) =
                      IF ~subs[s].aborted /\ match(subs[s].route, ch) THEN 1 ELSE 0
            /\ \A i \in 1..Len(invoked) :
                  invoked[i].msg.token = c =>
                      /\ invoked[i].live
                      /\ invoked[i].msg.payload = calls[c].payload
                      /\ invoked[i].msg.channel \in {A, B}

(* pub(['a','b'], p) has returned with a live subscriber of a and a live  *)
(* subscriber of b, each invoked for its own channel.                     *)
C6_Witness ==
    /\ last.ev = "pubReturn"
    /\ calls[last.id].routes = Arr(<<Str(A), Str(B)>>)
    /\ \E s, t \in 1..Len(subs) :
          /\ subs[s].route = Str(A) /\ ~subs[s].aborted
          /\ subs[t].route = Str(B) /\ ~subs[t].aborted
          /\ Cardinality(received(s, last.id, A)) = 1
          /\ Cardinality(received(t, last.id, B)) = 1
    /\ Len(dispatched(last.id)) = 2

unsettled(result) == result.t = "promise" /\ promises[result.v].state = "pending"

(* C8: the promise of pub is not resolved while a callback invoked for    *)
(* that publish has an unsettled result: when it is resolved, every       *)
(* result recorded for the call is settled.                               *)
C8_ResolvesAfterAllSettle ==
    \A c \in 1..Len(calls) :
        calls[c].state \in {"fulfilled", "rejected"} =>
            /\ \A i \in 1..Len(dispatched(c)) :
                  /\ dispatched(c)[i].res.t # "running"
                  /\ ~unsettled(dispatched(c)[i].res)
            /\ \A i \in 1..Len(calls[c].awaited) : ~unsettled(calls[c].awaited[i])

(* A pub that waited on a promise has just been resolved. *)
C8_Witness ==
    /\ last.ev = "fulfil"
    /\ calls[last.id].state = "fulfilled"
    /\ \E i \in 1..Len(calls[last.id].awaited) :
          /\ calls[last.id].awaited[i].t = "promise"
          /\ promises[calls[last.id].awaited[i].v].state # "pending"

(* The i-th callback invoked for a publish failed: it threw, or the       *)
(* promise it returned was rejected.                                      *)
failed(v) ==
    \/ v.res.t = "CallbackError"
    \/ v.res.t = "promise" /\ promises[v.res.v].state = "rejected"

(* C9: the promise of pub never rejects because of what callbacks do:     *)
(* whatever mix of them returns, throws or returns a promise that         *)
(* rejects, it fulfils with a list in which each failed callback has an   *)
(* error entry at its own position.                                       *)
C9_NeverRejects ==
    \A c \in 1..Len(calls) :
        /\ calls[c].state # "rejected"
        /\ calls[c].state = "fulfilled" =>
              LET inv == dispatched(c)
              IN  /\ Len(calls[c].value) = Len(inv)
                  /\ \A i \in 1..Len(inv) :
                        /\ failed(inv[i]) <=> calls[c].value[i].t \in {"CallbackError", "Error"}
                        /\ inv[i].res.t = "CallbackError" =>
                              calls[c].value[i] = Result("CallbackError", inv[i].sub)
                        /\ inv[i].res.t = "promise" /\ failed(inv[i]) =>
                              calls[c].value[i] = Result("Error", inv[i].res.v)

(* A pub has fulfilled with the entry of a callback that threw and the    *)
(* entry of a callback whose promise was rejected.                        *)
C9_Witness ==
    \E c \in 1..Len(calls) :
        /\ calls[c].state = "fulfilled"
        /\ \E i, j \in 1..Len(calls[c].value) :
              /\ calls[c].value[i].t = "CallbackError"
              /\ calls[c].value[j].t = "Error"
              /\ promises[calls[c].value[j].v].state = "rejected"

(* The subscriptions that were registered when publish c created its      *)
(* Message on channel a.                                                  *)
registered(c) ==
    {s \in 1..Len(subs) :
        \E j \in logged(A, c) : subs[s].since <= log(A)[j].order}

(* C10: when a callback throws during a publish, every other live         *)
(* subscription matching the publish is still invoked, pub returns, and   *)
(* the slot of the thrower holds a CallbackError for what it threw.       *)
C10_ThrowDoesNotStopOthers ==
    \A c \in 1..Len(calls) :
        calls[c].state # "executing" =>
            LET inv == dispatched(c)
            IN  /\ \A s \in registered(c) : Cardinality(received(s, c, A)) = 1
                /\ Len(calls[c].awaited) = Len(inv)
                /\ \A i \in 1..Len(inv) :
                      calls[c].awaited[i] =
                          Result(IF subs[inv[i].sub].kind \in {"throw", "throwValue"}
                                 THEN "CallbackError" ELSE "value", inv[i].sub)
                /\ calls[c].state = "fulfilled" => calls[c].value = calls[c].awaited

(* A pub has fulfilled with three entries, the one in the middle for a    *)
(* callback that threw between two that returned.                         *)
C10_Witness ==
    \E c \in 1..Len(calls) :
        /\ calls[c].state = "fulfilled"
        /\ Len(calls[c].value) = 3
        /\ calls[c].value[1] = Result("value", 1)
        /\ calls[c].value[2] = Result("CallbackError", 2)
        /\ calls[c].value[3] = Result("value", 3)
        /\ Len(errors) = 1

(* The ErrorEvents that invocation i of a callback raised. *)
raised(i) == {e \in 1..Len(errors) : errors[e].inv = i}

(* C11: each invocation of a callback that throws, made by a dispatch or  *)
(* by a backlog replay, raises exactly one ErrorEvent on the Hub, and an  *)
(* invocation that does not throw raises none.                            *)
C11_OneErrorEventPerThrow ==
    /\ \A i \in 1..Len(invoked) :
          Cardinality(raised(i)) = IF invoked[i].res.t = "CallbackError" THEN 1 ELSE 0
    /\ \A e \in 1..Len(errors) :
          /\ errors[e].inv \in 1..Len(invoked)
          /\ errors[e].thrown = invoked[errors[e].inv].sub

(* A callback has thrown once in a dispatch and once in a replay, next    *)
(* to a callback that returned: two ErrorEvents.                          *)
C11_Witness ==
    /\ idle
    /\ Len(errors) = 2
    /\ \E i, j, k \in 1..Len(invoked) :
          /\ invoked[i].live /\ invoked[i].res.t = "CallbackError"
          /\ ~invoked[j].live /\ invoked[j].res.t = "CallbackError"
          /\ invoked[k].res.t = "value"

(* C13: for a thrown value that is not an Error the cause of the          *)
(* ErrorEvent is a generic Error whose cause is the CallbackError whose   *)
(* cause is the thrown value, and the result entry is that CallbackError; *)
(* for a thrown Error the cause of the event is the CallbackError itself. *)
C13_CauseChain ==
    /\ \A e \in 1..Len(errors) :
          LET s == errors[e].thrown
          IN  /\ subs[s].kind = "throwValue" => errors[e].cause = <<"Error", "CallbackError">>
              /\ subs[s].kind = "throw" => errors[e].cause = <<"CallbackError">>
              /\ invoked[errors[e].inv].res = Result("CallbackError", s)
    /\ \A c \in 1..Len(calls) :
          calls[c].state = "fulfilled" =>
              \A i \in 1..Len(dispatched(c)) :
                  subs[dispatched(c)[i].sub].kind \in {"throw", "throwValue"} =>
                      calls[c].value[i] = Result("CallbackError", dispatched(c)[i].sub)

(* A pub has fulfilled after one callback threw an Error and another a    *)
(* value that is no Error.                                                *)
C13_Witness ==
    \E c \in 1..Len(calls) :
        /\ calls[c].state = "fulfilled"
        /\ \E i, j \in 1..Len(calls[c].value) :
              /\ subs[dispatched(c)[i].sub].kind = "throwValue"
              /\ subs[dispatched(c)[j].sub].kind = "throw"
              /\ calls[c].value[i].t = "CallbackError"
        /\ \E e, f \in 1..Len(errors) :
              /\ errors[e].cause = <<"Error", "CallbackError">>
              /\ errors[f].cause = <<"CallbackError">>

(* Invocation i returned a promise that was rejected. *)
rejected(i) ==
    /\ invoked[i].res.t = "promise"
    /\ promises[invoked[i].res.v].state = "rejected"

(* The position of invocation i among those of the dispatch of its        *)
(* publish.                                                               *)
position(i) ==
    Cardinality({j \in 1..i : invoked[j].live /\ invoked[j].msg.token = invoked[i].msg.token})

(* C12, as claimed: a callback whose promise rejects is handled like one  *)
(* that throws: its entry in the result list is the CallbackError         *)
(* wrapper, and an ErrorEvent is raised on the Hub for it.                *)
C12_RejectionLikeThrow ==
    \A i \in 1..Len(invoked) :
        rejected(i) =>
            /\ raised(i) # {}
            /\ invoked[i].live /\ calls[invoked[i].msg.token].state = "fulfilled" =>
                  calls[invoked[i].msg.token].value[position(i)].t = "CallbackError"

(* C12, amended: a callback whose promise rejects has, at its own         *)
(* position in the result list, a plain Error made from the reason of the *)
(* rejection, not the CallbackError wrapper, and no ErrorEvent is raised  *)
(* for it.                                                                *)
C12_RejectionIsPlainError ==
    \A i \in 1..Len(invoked) :
        rejected(i) =>
            /\ raised(i) = {}
            /\ invoked[i].live /\ calls[invoked[i].msg.token].state = "fulfilled" =>
                  calls[invoked[i].msg.token].value[position(i)] =
                      Result("Error", invoked[i].res.v)

(* A pub has fulfilled with the entry of a callback that threw before the *)
(* entry of a callback whose promise was rejected: one ErrorEvent only.   *)
C12_Witness ==
    \E i, j \in 1..Len(invoked) :
        /\ i < j
        /\ invoked[i].live /\ invoked[i].res.t = "CallbackError"
        /\ invoked[j].live /\ rejected(j)
        /\ invoked[i].msg.token = invoked[j].msg.token
        /\ calls[invoked[j].msg.token].state = "fulfilled"
        /\ calls[invoked[j].msg.token].value[position(j)].t = "Error"
        /\ Len(errors) = 1

(* Every Message in a channel log. *)
messages ==
    UNION {{channels[i].msgs[j] : j \in 1..Len(channels[i].msgs)} :
             i \in 1..Len(channels)}

(* C14: two publishes of equal payload values, in flight together or one  *)
(* after the other, make distinct Messages under distinct tracker keys,   *)
(* and the result list of each holds the results of the callbacks invoked *)
(* for that call only.                                                    *)
C14_EqualPayloadsDistinctCalls ==
    /\ \A m, n \in messages :
          m # n => m.order # n.order /\ m.token # n.token
    /\ \A c \in 1..Len(calls) :
          /\ last = Event("pubReturn", c) =>
                /\ Len(calls[c].awaited) = Len(subs)
                /\ \A i \in 1..Len(subs) :
                      /\ subs[i].kind = "value" => calls[c].awaited[i] = Result("value", i)
                      /\ subs[i].kind = "async" => calls[c].awaited[i].t = "promise"
          /\ \A d \in 1..Len(calls) : \A i \in 1..Len(calls[c].awaited) :
                \A j \in 1..Len(calls[d].awaited) :
                    /\ c # d
                    /\ calls[c].awaited[i].t = "promise"
                    /\ calls[d].awaited[j].t = "promise"
                    => calls[c].awaited[i].v # calls[d].awaited[j].v

(* Two publishes of the same payload are pending together, each waiting   *)
(* on a promise of its own.                                               *)
C14_Witness ==
    /\ Len(calls) = 2
    /\ calls[1].payload = calls[2].payload
    /\ calls[1].state = "pending"
    /\ calls[2].state = "pending"
    /\ Len(calls[1].awaited) = 1
    /\ Len(calls[2].awaited) = 1
    /\ calls[1].awaited[1].t = "promise"
    /\ calls[2].awaited[1].t = "promise"
    /\ 1 \in DOMAIN running /\ 2 \in DOMAIN running

named(name) == {i \in 1..Len(channels) : channels[i].name = name}

(* C16: makeChannel(name) with a name containing '*' throws and adds no   *)
(* channel, and pub creates no channel with such a name: no channel name  *)
(* of the Hub contains '*'.                                               *)
C16_NoWildcardChannel ==
    /\ \A i \in 1..Len(channels) : ~includes(channels[i].name, "*")
    /\ last.ev = "makeChannel" =>
          ~includes(Names[last.id], "*") /\ named(Names[last.id]) # {}
    /\ last.ev = "makeChannelThrew" =>
          includes(Names[last.id], "*") /\ named(Names[last.id]) = {}

(* makeChannel has thrown for a name with a wildcard on a Hub that has a  *)
(* channel, after a pub with a wildcard route.                            *)
C16_Witness ==
    /\ last.ev = "makeChannelThrew"
    /\ Len(channels) >= 1
    /\ \E c \in 1..Len(calls) :
          /\ calls[c].routes = Str(<<"a", "*">>)
          /\ calls[c].state # "executing"

(* C17: makeChannel called again for a name returns that name and leaves  *)
(* exactly one channel of that name, with the Messages logged on it: no   *)
(* two channels share a name, and no Message of a publish is lost.        *)
C17_MakeChannelIdempotent ==
    /\ \A i, j \in 1..Len(channels) : channels[i].name = channels[j].name => i = j
    /\ last.ev = "makeChannel" => Cardinality(named(Names[last.id])) = 1
    /\ \A c \in 1..Len(calls) :
          calls[c].state # "executing" =>
              \A i \in 1..Len(calls[c].targets) :
                  /\ Cardinality(named(calls[c].targets[i])) = 1
                  /\ Cardinality(logged(calls[c].targets[i], c)) = 1

(* makeChannel has returned for the name of a channel that holds a        *)
(* Message.                                                               *)
C17_Witness ==
    /\ last.ev = "makeChannel"
    /\ named(Names[last.id]) # {}
    /\ Len(log(Names[last.id])) >= 1
    /\ Len(channels) = 2

Matching ==
    {[cid |-> Str(A), names |-> {A}],
     [cid |-> Str(Star), names |-> {A, B}],
     [cid |-> Str(<<"a", "*">>), names |-> {A}],
     [cid |-> Regex(B), names |-> {B}],
     [cid |-> Arr(<<Str(B), Str(A)>>), names |-> {A, B}],
     [cid |-> Arr(<<Str(A), Str(Star)>>), names |-> {A, B}]}

(* The Messages of `among` that come before `m` in the order `ord`. *)
before(m, among, ord) ==
    {n \in among : IF ord = "ASC" THEN n.order < m.order ELSE n.order > m.order}

C20_NoLimitReturnsAll ==
    \A name \in {A, B} :
        named(name) # {} =>
            Len(getMessagesWith([cid |-> Str(name)])) = Len(log(name))

(* The number of '*' in a string. *)
stars(str) == Cardinality({i \in 1..Len(str) : str[i] = "*"})

(* A route string of one of the forms '*', 'word', 'word*' and '*word'. *)
wellFormed(str) ==
    \/ stars(str) = 0
    \/ stars(str) = 1 /\ (str[1] = "*" \/ str[Len(str)] = "*")

(* What a well-formed route string matches. *)
matches(str, name) ==
    IF str = Star THEN TRUE
    ELSE IF stars(str) = 0 THEN str = name
    ELSE IF str[Len(str)] = "*"
    THEN /\ Len(name) >= Len(str) - 1
         /\ \A i \in 1..(Len(str) - 1) : name[i] = str[i]
    ELSE /\ Len(name) >= Len(str) - 1
         /\ \A i \in 2..Len(str) : name[Len(name) - Len(str) + i] = str[i]

(* C21: for well-formed routes match is the reference semantics: '*'      *)
(* matches every name, a string without '*' matches the name equal to it, *)
(* 'word*' the names that start with word, '*word' the names that end     *)
(* with word, and a list matches when one of its elements does, the empty *)
(* list matching nothing.                                                 *)
C21_MatchIsReference ==
    last.ev = "match" =>
        /\ last.needle.tag = "string" /\ wellFormed(last.needle.val) =>
              last.result = matches(last.needle.val, last.haystack)
        /\ last.needle.tag = "array"
           /\ (\A i \in 1..Len(last.needle.val) : wellFormed(last.needle.val[i].val)) =>
              last.result = \E i \in 1..Len(last.needle.val) :
                                matches(last.needle.val[i].val, last.haystack)

(* match has returned true for the route '*b' on the name 'ab'. *)
C21_Witness ==
    /\ last.ev = "match"
    /\ last.needle = Str(<<"*", "b">>)
    /\ last.haystack = <<"a", "b">>
    /\ last.result

(* C22: a route string with a '*' that is not its single leading or       *)
(* single trailing character, other than '*' itself, matches no name.     *)
C22_MalformedMatchesNothing ==
    last.ev = "match" /\ last.needle.tag = "string"
    /\ ~wellFormed(last.needle.val) => ~last.result

(* C23: an event dispatched on the Hub that is not a Message, also one    *)
(* whose type is Message.NAME, invokes no callback and adds nothing to a  *)
(* channel log or to the tracker.                                         *)
C23_OnlyMessagesDelivered ==
    /\ \A i \in 1..Len(invoked) : invoked[i].msg.class = "Message"
    /\ \A m \in messages : m.class = "Message"
    /\ 0 \notin DOMAIN running

(* An event of type Message.NAME that is no Message has been dispatched   *)
(* and has returned on a Hub with two live subscriptions, one of them to  *)
(* every channel, after a Message was delivered to it.                    *)
C23_Witness ==
    /\ last.ev = "dispatched"
    /\ Len(subs) = 2
    /\ \E s \in 1..Len(subs) : subs[s].route = Str(Star)
    /\ \E s \in 1..Len(subs) : subs[s].route = Regex(<<"u">>)
    /\ Len(invoked) = 1

(* C24: a callback that returns undefined is recorded in the result list  *)
(* of the publish as true, and a callback that returns false, null or 0   *)
(* is recorded with that value.                                           *)
C24_UndefinedBecomesTrue ==
    \A c \in 1..Len(calls) :
        calls[c].state = "fulfilled" =>
            LET made == SelectSeq(invoked, LAMBDA x : x.live /\ x.msg.token = c)
            IN  /\ Len(calls[c].value) = Len(made)
                /\ \A i \in 1..Len(made) :
                      LET returned == subs[made[i].sub].kind
                      IN  calls[c].value[i] =
                              IF returned = "undefined" THEN Result("true", 0)
                              ELSE Result(returned, 0)

(* A publish was fulfilled with the results of a callback that returned   *)
(* undefined and of one that returned 0.                                  *)
C24_Witness ==
    \E c \in 1..Len(calls) :
        /\ calls[c].state = "fulfilled"
        /\ calls[c].value = <<Result("true", 0), Result("zero", 0)>>
        /\ subs[1].kind = "undefined"

(* No live subscription matches a channel that call `c` resolved to. *)
unheard(c) ==
    \A s \in 1..Len(subs) : \A i \in 1..Len(calls[c].targets) :
        subs[s].removed \/ ~match(subs[s].route, calls[c].targets[i])

(* C25: a publish that no live subscription matches on any channel it    *)
(* resolved to, or that resolved to no channel, is fulfilled with an      *)
(* empty list when pub returns, and its Messages are on the logs of the   *)
(* channels it resolved to.                                               *)
C25_NoSubscriberFulfilsEmpty ==
    \A c \in 1..Len(calls) :
        /\ last = Event("pubReturn", c) /\ unheard(c) =>
              /\ calls[c].state = "fulfilled"
              /\ calls[c].value = <<>>
              /\ \A i \in 1..Len(calls[c].targets) :
                    Cardinality(logged(calls[c].targets[i], c)) = 1
        /\ calls[c].state # "executing" /\ calls[c].awaited = <<>> =>
              calls[c].state = "fulfilled" /\ calls[c].value = <<>>

(* pub has returned for a publish to 'a' on a Hub whose only subscription *)
(* is to 'b'.                                                             *)
C25_Witness ==
    \E c \in 1..Len(calls) :
        /\ last = Event("pubReturn", c)
        /\ calls[c].targets = <<A>>
        /\ Len(subs) = 1
        /\ subs[1].route = Str(B)
        /\ unheard(c)
        /\ calls[c].state = "fulfilled"

(* A [channel, payload] tuple: an array of two whose first is a string. *)
tuple(rec) ==
    rec.tag = "array" /\ Len(rec.val) = 2 /\ rec.val[1].tag = "string"

(* The records of the initial array the loop of makeQueue has not reached. *)
waiting ==
    IF \E i \in 1..Len(stack) : stack[i].op = "makeQueue"
    THEN stack[CHOOSE i \in 1..Len(stack) : stack[i].op = "makeQueue"].rest
    ELSE <<>>

(* The records handed to the queue so far, in order: those of the initial *)
(* array that the loop reached, then the values assigned to an index.     *)
handed ==
    LET put == SelectSeq(queue.assigned, LAMBDA a : a.key.tag = "index")
    IN  SubSeq(queue.initial, 1, Len(queue.initial) - Len(waiting))
        \o [i \in 1..Len(put) |-> put[i].value]

malformed(records) ==
    SelectSeq(records, LAMBDA r : ~tuple(r) /\ r.tag # "function")

(* C27: a malformed record is reported on console.error and skipped,      *)
(* without a hub.pub, when it is in the initial array and when it is      *)
(* assigned later.                                                        *)
C27_MalformedReported ==
    /\ Len(console) = Len(malformed(handed))
    /\ Len(calls) = Len(SelectSeq(handed, tuple))

(* The Messages that the callback given to the helper of subscription `s` *)
(* was called with, in order.                                             *)
given(s) ==
    LET mine == SelectSeq(called, LAMBDA x : x.fn = s)
    IN  [i \in 1..Len(mine) |-> mine[i].arg]

(* C28: once invokes its callback at most once, whatever is published to  *)
(* a matching channel, also by the callback itself; with onlyFuture false *)
(* and a matching history that one call is for the newest logged Message, *)
(* made during the call of once.                                          *)
C28_OnceAtMostOnce ==
    \A s \in 1..Len(subs) :
        subs[s].kind = "once" =>
            /\ Len(given(s)) <= 1
            /\ subs[s].backlog = 1 /\ subs[s].since > 0 /\ given(s) # <<>> =>
                  given(s)[1] < subs[s].since

(* The Messages delivered to subscription `s`, in order. *)
deliveries(s) ==
    LET mine == SelectSeq(invoked, LAMBDA x : x.sub = s)
    IN  [i \in 1..Len(mine) |-> mine[i].msg]

firstCalls == SelectSeq(called, LAMBDA x : x.fn = "first")

(* The subscriptions first made, in the order of its routes. *)
firstSubs == SelectSeq([i \in 1..Len(subs) |-> i], LAMBDA i : subs[i].kind = "first")

(* C30: first invokes its callback at most once, and only when every      *)
(* route has received a Message or timed out; the result of a route that  *)
(* received one is [route, payload] with the first payload delivered to   *)
(* it, whatever came later, and a route that timed out is in              *)
(* results.failed as [route, 'TIMED OUT'] and not among the results.      *)
C30_FirstPayloadPerRoute ==
    /\ Len(firstCalls) <= 1
    /\ firstCalls # <<>> =>
          LET heard == SelectSeq(firstSubs, LAMBDA s : deliveries(s) # <<>>)
              silent == SelectSeq(firstSubs, LAMBDA s : deliveries(s) = <<>>)
          IN  /\ \A i \in 1..Len(silent) :
                    /\ subs[silent[i]].aborted
                    /\ \E p \in 1..Len(promises) :
                          promises[p].sub = silent[i] /\ promises[p].timer = "ran"
              /\ firstCalls[1].arg.results =
                     [i \in 1..Len(heard) |->
                        <<subs[heard[i]].route, deliveries(heard[i])[1].payload>>]
              /\ firstCalls[1].arg.failed =
                     [i \in 1..Len(silent) |-> <<subs[silent[i]].route, "TIMED OUT">>]

(* The callback of first was called with the result of one route and the  *)
(* timeout of the other, and the route that had received a Message has    *)
(* received a second one with another payload since.                      *)
C30_Witness ==
    /\ firstCalls # <<>>
    /\ Len(firstCalls[1].arg.results) = 1
    /\ Len(firstCalls[1].arg.failed) = 1
    /\ \E s \in 1..Len(subs) :
          /\ Len(deliveries(s)) = 2
          /\ deliveries(s)[1].payload # deliveries(s)[2].payload


(* C31: when a callback runs for a live Message, the Message is already   *)
(* in the log of its channel: getMessages on that channel, called by the  *)
(* callback, returns it as the newest Message.                            *)
C31_LoggedBeforeCallback ==
    ~idle /\ top.op = "callback" /\ invoked[top.inv].live =>
        getMessages(Str(top.msg.channel), "DESC", 1) = <<top.msg>>


(* C32: when the handlers attached to the promise of a pub run, which is  *)
(* right after the promise was settled, the tracker still holds the entry *)
(* of the call with every result the pub awaited; the entry is removed    *)
(* only after the promise was settled, and once for a call.               *)
C32_EntryKeptUntilFinally ==
    [][\A c \in 1..Len(calls) :
          /\ last' = Event("fulfil", c) =>
                /\ contains(c) \in DOMAIN running'
                /\ calls'[c].awaited # <<>>
                /\ Len(running'[contains(c)]) >= Len(calls'[c].awaited)
                /\ SubSeq(running'[contains(c)], 1, Len(calls'[c].awaited))
                      = calls'[c].awaited
          /\ contains(c) \in DOMAIN running /\ contains(c) \notin DOMAIN running' =>
                /\ calls[c].state \in {"fulfilled", "rejected"}
                /\ ~calls[c].cleaned
                /\ calls'[c].cleaned
          /\ calls[c].cleaned => calls'[c].cleaned]_vars

(* The promise of a pub has just been fulfilled after both of its         *)
(* callbacks' results settled, one of them a promise, and the entry of    *)
(* the call holds the two results.                                        *)
C32_Witness ==
    /\ last.ev = "fulfil"
    /\ contains(last.id) \in DOMAIN running
    /\ Len(running[contains(last.id)]) = 2
    /\ \E i \in 1..2 : running[contains(last.id)][i].t = "promise"
    /\ ~calls[last.id].cleaned


(* C33: the result list of a publish has one entry for each invocation    *)
(* its own dispatch passes made, and every entry is the result of one of  *)
(* them: no result of a backlog replay or of another publish is in it.    *)
C33_OnlyOwnDispatchResults ==
    \A c \in 1..Len(calls) :
        calls[c].state = "fulfilled" =>
            /\ Len(calls[c].value) =
                  Cardinality({i \in 1..Len(invoked) :
                                  invoked[i].live /\ invoked[i].msg.token = c})
            /\ \A k \in 1..Len(calls[c].value) :
                  \E i \in 1..Len(invoked) :
                      /\ invoked[i].live
                      /\ invoked[i].msg.token = c
                      /\ calls[c].value[k] = completed(invoked[i].res)


C35_UnsubInsidePass ==
    \A k \in 1..Len(called) :
        called[k].fn = "unsub" =>
            \A i \in 1..Len(invoked) :
                ~ /\ i > called[k].arg.at
                  /\ invoked[i].live
                  /\ invoked[i].sub = called[k].arg.sub
                  /\ invoked[i].msg.order = called[k].arg.msg


(* The Messages that exist: those in the logs and those being dispatched. *)
created ==
    messages \cup {stack[k].msg : k \in {j \in 1..Len(stack) : stack[j].op = "dispatch"}}

(* C36: a Message gets a sequence number greater than that of every       *)
(* Message created before it (when push has just made one, its number is  *)
(* above those of all others), and every channel log is in strictly       *)
(* increasing sequence order in every state, so that sorting a log by     *)
(* sequence leaves it as it is.                                           *)
C36_SequenceIncreases ==
    /\ \A m \in created : m.order < order
    /\ last.ev = "push" =>
          /\ top.msg.order = order - 1
          /\ \A m \in created \ {top.msg} : m.order < top.msg.order
    /\ \A i \in 1..Len(channels) :
          LET msgs == channels[i].msgs
          IN  /\ \A j, k \in 1..Len(msgs) : j < k => msgs[j].order < msgs[k].order
              /\ sortByProp(msgs, "ASC") = msgs

(* A log of two Messages whose numbers increase and are not consecutive:  *)
(* a callback published while the first was dispatched, and the Message   *)
(* it made, which has the number in between, is not in the log.           *)
C36_Witness ==
    /\ idle
    /\ has(keys, A)
    /\ Len(log(A)) = 2
    /\ log(A)[2].order > log(A)[1].order + 1
    /\ order = 3


(* C37: getAffix returns false for '*', for a string without '*' and for  *)
(* a string with two or more '*', wherever they are; for 'word*' it       *)
(* returns the term 'word' as a prefix and for '*word' as a suffix.       *)
C37_AffixOnlyOfSingleStar ==
    last.ev = "getAffix" =>
        LET str == last.str
            n == Len(str)
        IN  IF stars(str) = 1 /\ n > 1 /\ str[n] = "*"
            THEN last.result = [ok |-> TRUE, term |-> SubSeq(str, 1, n - 1),
                                isSuffix |-> FALSE]
            ELSE IF stars(str) = 1 /\ n > 1 /\ str[1] = "*"
            THEN last.result = [ok |-> TRUE, term |-> SubSeq(str, 2, n),
                                isSuffix |-> TRUE]
            ELSE ~last.result.ok


(* C38: the function sub returned terminates the subscription whatever    *)
(* the listener options were, a signal of the caller among them: once it  *)
(* has been called, the listener is no longer among those a dispatch      *)
(* visits, so no later Message is delivered to the callback.              *)
C38_UnsubWhateverOptions ==
    \A s \in 1..Len(subs) :
        subs[s].aborted => ~has(listeners, s)


(* The routes of publish c as a list. *)
routesOf(c) ==
    IF calls[c].routes.tag = "array" THEN calls[c].routes.val ELSE <<calls[c].routes>>

(* C39: however often the routes of a publish resolve to a channel, by a  *)
(* literal that is repeated or by a literal next to a wildcard or regular *)
(* expression that matches it, the publish appends one Message to that    *)
(* channel and invokes each live subscription that matches it once.       *)
C39_DuplicateRoutesOnce ==
    \A c \in 1..Len(calls) :
        last = Event("pubReturn", c) =>
            \A n \in 1..Len(keys) :
                LET resolved == \E r \in 1..Len(routesOf(c)) :
                                    matchOne(routesOf(c)[r], keys[n])
                IN  /\ Cardinality(logged(keys[n], c)) = IF resolved THEN 1 ELSE 0
                    /\ \A s \in 1..Len(subs) :
                          Cardinality({i \in 1..Len(invoked) :
                                          /\ invoked[i].live
                                          /\ invoked[i].sub = s
                                          /\ invoked[i].msg.token = c
                                          /\ invoked[i].msg.channel = keys[n]}) =
                              IF resolved /\ match(subs[s].route, keys[n]) THEN 1 ELSE 0

(* A pub of ['b', '*', 'b'] has returned on a Hub that had the channel b  *)
(* with a Message and a subscription to every channel: the log of b got   *)
(* one Message more, and the callback one invocation for it.              *)
C39_Witness ==
    /\ last.ev = "pubReturn"
    /\ calls[last.id].routes = Arr(<<Str(B), Str(Star), Str(B)>>)
    /\ has(keys, B)
    /\ Len(log(B)) = 2
    /\ log(B)[2].token = last.id
    /\ Len(subs) = 1
    /\ subs[1].route = Str(Star)
    /\ subs[1].since = 0
    /\ Len(SelectSeq(invoked, LAMBDA v : v.msg.token = last.id /\ v.msg.channel = B)) = 1


(* The state of publish c, "none" before it is called. *)
stateOf(c) ==
    IF c <= Len(calls) THEN calls[c].state ELSE "none"

(* Publish c waits, and every promise it waits on has settled. *)
awaitedSettled(c) ==
    IF c <= Len(calls)
    THEN /\ calls[c].state = "pending"
         /\ \A i \in 1..Len(calls[c].awaited) :
               calls[c].awaited[i].t = "promise" =>
                   promises[calls[c].awaited[i].v].state # "pending"
    ELSE FALSE

(* Publish c is fulfilled and had results to wait on. *)
fulfilledWithResults(c) ==
    IF c <= Len(calls)
    THEN calls[c].state = "fulfilled" /\ calls[c].awaited # <<>>
    ELSE FALSE

(* The entry of publish c was removed from the tracker. *)
entryRemoved(c) ==
    IF c <= Len(calls)
    THEN calls[c].cleaned /\ contains(c) \notin DOMAIN running
    ELSE FALSE

(* C40: a pub that was called returns; once every promise its callbacks   *)
(* returned has settled, at once when there is none, its promise is       *)
(* eventually fulfilled, whatever else happens or does not happen on the  *)
(* Hub; and the entry of a fulfilled call that had results is eventually  *)
(* removed from the tracker.                                              *)
C40_EventuallyFulfilledAndCleaned ==
    \A c \in 1..LivePubs :
        /\ (stateOf(c) = "executing") ~> (stateOf(c) \in {"pending", "fulfilled"})
        /\ awaitedSettled(c) ~> (stateOf(c) = "fulfilled")
        /\ fulfilledWithResults(c) ~> entryRemoved(c)

(* A publish that waited on two promises is fulfilled, one of the         *)
(* promises having been rejected, and its entry is gone.                  *)
C40_Witness ==
    \E c \in 1..Len(calls) :
        /\ calls[c].state = "fulfilled"
        /\ calls[c].cleaned
        /\ contains(c) \notin DOMAIN running
        /\ Len(calls[c].awaited) = 2
        /\ \A i \in 1..2 : calls[c].awaited[i].t = "promise"
        /\ \E i \in 1..2 : promises[calls[c].awaited[i].v].state = "rejected"

=============================================================================
